---- MODULE Spec2Model ----
(***************************************************************************)
(* A model of the PDF chunker / Q&A generator:                             *)
(*   - the App component's state and handlers (src/types.ts),              *)
(*   - the manual chunk form (src/components/ChunkManager.tsx),            *)
(*   - the generation client generateQuestionsAndAnswers                   *)
(*     (src/unnamed/part_000).                                             *)
(* Every asynchronous handler is cut at its awaits: one action per         *)
(* stretch of code that runs without yielding to the event loop.           *)
(***************************************************************************)
EXTENDS Integers, Sequences, FiniteSets, TLC

\* ------------------------------------------------------------------ bounds
\* Largest page count of an uploaded document.
MaxPages == 5
\* Largest number of outline items visited in one behaviour, over all walks.
MaxItems == 3
\* Largest number of manual adds in one behaviour.
MaxAdds == 1
\* Largest number of file selections in one behaviour.
MaxUploads == 1

\* Largest number of clicks on Add Chunk before a batch run.
MaxBatchAdds == 3

\* Largest numbers of file selections and of clicks on Add Chunk where
\* generation meets the selection of another file.
MaxConcUploads == 2
MaxConcAdds == 2

\* Largest number of clicks on Add Chunk where chunks are generated one by
\* one, in batches, and deleted.
MaxCacheAdds == 2

\* Largest numbers of clicks on Add Chunk and on Save All where the cache is
\* exported.
MaxSaveAdds == 2
MaxSaves == 2

\* Longest question or answer string of a raw pair.
MaxFieldLen == 3

\* Longest raw pair list of more than one pair.
MaxRawPairs == 3

\* ------------------------------------------------------- program constants
MAX_CHUNK_PAGES == 4
MAX_RETRIES == 3
BASE_DELAY_MS == 1500

\* --------------------------------------------------------------- variables
VARIABLES
    \* React state of App
    file,               \* "null" | "pdf"
    pdfDoc,             \* 0 for null, else numPages of the loaded document
    pdfArrayBuffer,     \* "null" | "bytes"
    appError,           \* "null" or the message shown
    isParsing,
    chunks,             \* sequence of Chunk records
    nextChunkId,
    selectedChunk,      \* a Chunk record, NullChunk for null
    isAutoSplitting,
    hasOutline,         \* "null" | "true" | "false"
    qaCache,            \* function: chunk id -> sequence of QAPair
    isGeneratingAll,
    generationProgress, \* [current, total]
    \* the FileReader / reader.onload continuation of handleFileChange
    ldPc,               \* "idle" | "reading" | "getDocument" | "getOutline" | "textCheck"
    ldDoc,              \* numPages of the document being parsed
    \* the pending autoSplitPdf call
    asPc,               \* "idle" | "getOutline" | "walk"
    asDoc,              \* pdfDoc captured by the callback's closure
    bookmarks,          \* local: sequence of [title, page]
    depth,              \* nested processOutline frames
    entered,            \* TRUE right after recursing into item.items
    walked,             \* the items the for loops have taken so far, in order:
                        \* [depth, hasItems, pageIndex], pageIndex being what
                        \* getPageIndex answered and -1 for an item that has
                        \* no destination to ask for or whose lookup rejected
    \* the pending generateQuestionsAndAnswers call
    genPc,              \* "idle" | "request" | "sleep" | "returned" | "thrown"
    genText,            \* argument text
    genImages,          \* argument images: "undefined" or a sequence of images
    attempt,            \* loop variable of the retry loop
    lastError,          \* local lastError
    requests,           \* calls of ai.models.generateContent made by this call
    errors,             \* the error caught by each failed attempt, in order
    delays,             \* the sleeps awaited by this call, in order
    genResult,          \* [kind, value]: what the call returned or threw
    \* environment bookkeeping
    visited,            \* outline items visited so far, over all walks; an
                        \* item's serial number serves as its title
    formError,          \* ChunkManager's local error state
    adds,               \* clicks on Add Chunk so far
    uploads,            \* file selections so far
    \* the pending handleGenerateQA call of the Q&A panel
    sgPc,               \* "idle" | "extract" | "call"
    sgChunk,            \* selectedChunk captured by the callback's closure
    sgFile,             \* file captured by generateQaForChunk's closure
    sgMount,            \* the panel instance that made the call: the value of
                        \* uploads when it was made
    qgError,            \* the panel's local error state: [mount, message]
    \* the pending handleGenerateAllQa call
    baPc,               \* "idle" | "extract" | "call" | "pacing"
    baChunks,           \* chunks captured by the callback's closure
    baFile,             \* file captured by generateQaForChunk's closure
    baCompleted,        \* local completed
    baLog,              \* what the current or last run did, in order
    parsedData,         \* what JSON.parse gives for the body "[{question,answer}]"
    saved,              \* handleSaveAllQa: [calls, files, lines], the lines
                        \* being those of the last file downloaded
    asEnded             \* the autoSplitPdf call that ended in the last step:
                        \* how it ended ("early" | "noOutline" | "rejected" |
                        \* "noBookmarks" | "chunks") and the last values of its
                        \* locals; NotEnded when the last step ended no call

appVars == <<file, pdfDoc, pdfArrayBuffer, appError, isParsing, chunks, nextChunkId,
             selectedChunk, isAutoSplitting, hasOutline, qaCache,
             isGeneratingAll, generationProgress>>
ldVars == <<ldPc, ldDoc>>
asVars == <<asPc, asDoc, bookmarks, depth, entered, walked>>
genVars == <<genPc, genText, genImages, attempt, lastError, requests, errors, delays,
            genResult>>
envVars == <<visited, formError, adds, uploads>>
sgVars == <<sgPc, sgChunk, sgFile, sgMount, qgError>>
baVars == <<baPc, baChunks, baFile, baCompleted, baLog>>
qaVars == <<sgVars, baVars, parsedData, saved>>
vars == <<appVars, ldVars, asVars, genVars, envVars, qaVars, asEnded>>

\* ------------------------------------------------------------------ values
NullChunk == [id |-> 0, startPage |-> 0, endPage |-> 0, contextTitle |-> 0]
EmptyCache == [i \in {} |-> <<>>]
NoProgress == [current |-> 0, total |-> 0]
NoError == [status |-> "undefined", code |-> "undefined", bodyStatus |-> "undefined",
            message |-> "undefined"]

MsgInvalidFile == "Please select a valid PDF file."
MsgReadFailed == "Failed to read file."
MsgNoOutline == "Auto-split error: No outline found in the document."
MsgNoStructure ==
    "Auto-split error: Failed to extract structure from outline. Please use manual splitting."
MsgOutlineRejected == "Auto-split error: <message of the getOutline rejection>"
AutoSplitErrors == {MsgNoOutline, MsgNoStructure, MsgOutlineRejected}

NoResult == [kind |-> "none", value |-> ""]
NoDownload == [calls |-> 0, files |-> 0, lines |-> <<>>]

Min(a, b) == IF a <= b THEN a ELSE b

\* The record of an autoSplitPdf call that ends in this step, and of no call ending.
Ended(how) ==
    [how |-> how, bookmarks |-> bookmarks, numPages |-> asDoc, walked |-> walked]

NotEnded == [how |-> "none", bookmarks |-> <<>>, numPages |-> 0, walked |-> <<>>]

\* ------------------------------------------------- autoSplitPdf: pure part
\* One outline item as processOutline sees it.  dest is item.dest ("string": a
\* named destination, "array": an explicit one, "other": anything else);
\* named is what getDestination answers for a named destination; ref tells
\* whether dest[0] is truthy; pageIndex is what getPageIndex answers, -1
\* standing for a rejection.
\* Fields the code does not read for an item are fixed.
OutlineItems(numPages) ==
    [dest : {"string", "array"}, named : {"array"}, ref : {"truthy"},
     pageIndex : -1 .. (numPages - 1)]
    \cup [dest : {"string", "array"}, named : {"array"}, ref : {"falsy"}, pageIndex : {-1}]
    \cup [dest : {"string"}, named : {"null", "throws"}, ref : {"falsy"}, pageIndex : {-1}]
    \cup [dest : {"other"}, named : {"null"}, ref : {"falsy"}, pageIndex : {-1}]

\* The item has a destination getPageIndex is asked for: an explicit one, or
\* a named one that getDestination resolves, with a first element.
HasDestination(item) ==
    /\ item.dest \in {"string", "array"}
    /\ item.dest = "string" => item.named = "array"
    /\ item.ref = "truthy"

\* The page pushed when `+ 1` is left out, 0 when the item is skipped.
ItemPageZeroBased(item) == IF HasDestination(item) /\ item.pageIndex > 0 THEN item.pageIndex ELSE 0

\* The page recorded for an item, 0 when the item is skipped.
ItemPage(item) ==
    LET isArray == \/ item.dest = "array"
                   \/ item.dest = "string" /\ item.named = "array"
    IN  IF item.dest = "string" /\ item.named = "throws" THEN 0
        ELSE IF ~(isArray /\ item.ref = "truthy") THEN 0
        ELSE IF item.pageIndex < 0 THEN 0
        ELSE item.pageIndex + 1

\* Array.prototype.sort with (a, b) => a.page - b.page: a stable sort.
InsertByPage(s, b) ==
    LET k == Cardinality({i \in 1..Len(s) : s[i].page <= b.page})
    IN  SubSeq(s, 1, k) \o <<b>> \o SubSeq(s, k + 1, Len(s))

RECURSIVE SortByPage(_)
SortByPage(s) ==
    IF s = <<>> THEN <<>>
    ELSE InsertByPage(SortByPage(SubSeq(s, 1, Len(s) - 1)), s[Len(s)])

\* self.findIndex(b => b.page === page), 1-based.
FindIndex(self, page) ==
    CHOOSE i \in 1..Len(self) :
        /\ self[i].page = page
        /\ \A j \in 1..(i - 1) : self[j].page # page

RECURSIVE FilterFirstOfPage(_, _)
FilterFirstOfPage(self, index) ==
    IF index > Len(self) THEN <<>>
    ELSE (IF index = FindIndex(self, self[index].page) THEN <<self[index]>> ELSE <<>>)
         \o FilterFirstOfPage(self, index + 1)

RECURSIVE FilterLastOfPage(_, _)
FilterLastOfPage(self, index) ==
    IF index > Len(self) THEN <<>>
    ELSE (IF \A j \in (index + 1)..Len(self) : self[j].page # self[index].page
          THEN <<self[index]>> ELSE <<>>)
         \o FilterLastOfPage(self, index + 1)

UniqueBookmarksKeepLast(bs) == FilterLastOfPage(SortByPage(bs), 1)

UniqueBookmarks(bs) == FilterFirstOfPage(SortByPage(bs), 1)

SectionEndOverlapping(ub, i, numPages) ==
    IF i + 1 <= Len(ub) THEN ub[i + 1].page ELSE numPages

SectionEndBeforePrevious(ub, i, numPages) ==
    IF i + 1 <= Len(ub) THEN ub[i + 1].page - 2 ELSE numPages

\* endPage of the section of uniqueBookmarks[i] (1-based i).
SectionEnd(ub, i, numPages) ==
    IF i + 1 <= Len(ub) THEN ub[i + 1].page - 1 ELSE numPages

RECURSIVE InitialChunksFrom(_, _, _)
InitialChunksFrom(ub, i, numPages) ==
    IF i > Len(ub) THEN <<>>
    ELSE LET startPage == ub[i].page
             endPage == SectionEnd(ub, i, numPages)
         IN  (IF startPage <= endPage
              THEN <<[startPage |-> startPage, endPage |-> endPage,
                      contextTitle |-> ub[i].title]>>
              ELSE <<>>)
             \o InitialChunksFrom(ub, i + 1, numPages)

InitialChunks(ub, numPages) == InitialChunksFrom(ub, 1, numPages)

CurrentEndTooLong(currentStart, endPage) ==
    Min(currentStart + MAX_CHUNK_PAGES, endPage)

CurrentEndTooShort(currentStart, endPage) ==
    Min(currentStart + MAX_CHUNK_PAGES - 2, endPage)

CurrentEnd(currentStart, endPage) ==
    Min(currentStart + MAX_CHUNK_PAGES - 1, endPage)

\* The while loop over one section.
RECURSIVE SplitSection(_, _)
SplitSection(chunk, currentStart) ==
    IF currentStart > chunk.endPage THEN <<>>
    ELSE LET currentEnd == CurrentEnd(currentStart, chunk.endPage)
         IN  <<[startPage |-> currentStart, endPage |-> currentEnd,
                contextTitle |-> chunk.contextTitle]>>
             \o SplitSection(chunk, currentEnd + 1)

RECURSIVE FinalChunksFrom(_, _)
FinalChunksFrom(initial, i) ==
    IF i > Len(initial) THEN <<>>
    ELSE SplitSection(initial[i], initial[i].startPage) \o FinalChunksFrom(initial, i + 1)

FinalChunks(initial) == FinalChunksFrom(initial, 1)

NewChunksWithIdZeroBased(final) ==
    [index \in 1..Len(final) |->
        [id |-> index - 1, startPage |-> final[index].startPage,
         endPage |-> final[index].endPage, contextTitle |-> final[index].contextTitle]]

\* finalChunks.map((chunk, index) => ({...chunk, id: index + 1})), index 0-based
\* in the code and 1-based here.
NewChunksWithId(final) ==
    [index \in 1..Len(final) |->
        [id |-> index, startPage |-> final[index].startPage,
         endPage |-> final[index].endPage, contextTitle |-> final[index].contextTitle]]

\* The chunk list a successful split installs.
SplitResult(bs, numPages) ==
    NewChunksWithId(FinalChunks(InitialChunks(UniqueBookmarks(bs), numPages)))

\* ------------------------------------- generateQaForChunk: normalization
\* A field of a raw pair as the map callback reads it.  typ is "string",
\* "null" (null or undefined) or "number" (a non-zero number, standing for
\* any truthy value that is no string); chars is the string, one character
\* per element.
StrField(chars) == [typ |-> "string", chars |-> chars]
NullField == [typ |-> "null", chars |-> <<>>]
NumberField == [typ |-> "number", chars |-> <<>>]

PlainPair == [question |-> StrField(<<"Q">>), answer |-> StrField(<<"A">>)]
PlainBody == <<PlainPair>>

\* !field
Falsy(field) == field.typ = "null" \/ (field.typ = "string" /\ field.chars = <<>>)

RECURSIVE TrimStart(_)
TrimStart(s) == IF s # <<>> /\ s[1] = " " THEN TrimStart(Tail(s)) ELSE s

RECURSIVE TrimEnd(_)
TrimEnd(s) ==
    IF s # <<>> /\ s[Len(s)] = " " THEN TrimEnd(SubSeq(s, 1, Len(s) - 1)) ELSE s

\* String.prototype.trim
Trim(s) == TrimEnd(TrimStart(s))

\* questionText.endsWith('?')
EndsWithQuestionMark(s) == s # <<>> /\ s[Len(s)] = "?"

\* questionText after the trim and the appended question mark.
QuestionText(question) ==
    IF EndsWithQuestionMark(Trim(question)) THEN Trim(question)
    ELSE Append(Trim(question), "?")

ToLowerCaseChar(c) == IF c = "Q" THEN "q" ELSE IF c = "A" THEN "a" ELSE c

\* questionText.charAt(0).toLowerCase() + questionText.slice(1)
LowerFirst(s) == IF s = <<>> THEN <<>> ELSE <<ToLowerCaseChar(s[1])>> \o Tail(s)

\* file?.name || 'this document'
FileName(f) == IF f = "null" THEN "this document" ELSE "uploaded.pdf"

\* contextPrefix, as the pieces of its template; contextTitle 0 is undefined.
ContextPrefix(chunk, f) ==
    IF chunk.contextTitle # 0
    THEN <<"In the section \"", ToString(chunk.contextTitle),
           "\" of the document \"", FileName(f), "\", ">>
    ELSE <<"In the document \"", FileName(f), "\", ">>

\* The callback returns null for the pair.
Dropped(pair) == Falsy(pair.question) \/ Falsy(pair.answer)

\* The QAPair the callback returns for a pair it keeps.
FinalPair(pair, chunk, f) ==
    [input_text |-> ContextPrefix(chunk, f) \o LowerFirst(QuestionText(pair.question.chars)),
     output_text |-> Trim(pair.answer.chars)]

\* The callback throws: trim is no function of a value that is no string.
MapThrows(basePairs) ==
    \E i \in 1..Len(basePairs) :
        /\ ~Dropped(basePairs[i])
        /\ basePairs[i].question.typ = "number" \/ basePairs[i].answer.typ = "number"

RECURSIVE FinalPairsKeepingGaps(_, _, _)
FinalPairsKeepingGaps(basePairs, chunk, f) ==
    IF basePairs = <<>> THEN <<>>
    ELSE <<IF Dropped(basePairs[1])
           THEN [input_text |-> <<>>, output_text |-> <<>>]
           ELSE FinalPair(basePairs[1], chunk, f)>>
         \o FinalPairsKeepingGaps(Tail(basePairs), chunk, f)

\* basePairs.map(...).filter(p => p !== null)
RECURSIVE FinalPairs(_, _, _)
FinalPairs(basePairs, chunk, f) ==
    IF basePairs = <<>> THEN <<>>
    ELSE (IF Dropped(basePairs[1]) THEN <<>> ELSE <<FinalPair(basePairs[1], chunk, f)>>)
         \o FinalPairs(Tail(basePairs), chunk, f)

CachePutAlone(cache, id, finalPairs) == [k \in {id} |-> finalPairs]

\* setQaCache(prev => ({ ...prev, [id]: finalPairs }))
CachePut(cache, id, finalPairs) ==
    [k \in (DOMAIN cache) \cup {id} |-> IF k = id THEN finalPairs ELSE cache[k]]

\* ------------------------------------------------------------ App handlers
\* The chunk manager and the Q&A panel are rendered only with a file and a
\* parsed document; otherwise the uploader is.
MainUI == file # "null" /\ pdfDoc # 0

\* The file input that is rendered is enabled.
FileInputEnabled == MainUI \/ ~isParsing

\* resetStateForNewFile, but for file and appError, which its callers set again.
ResetStateForNewFile ==
    /\ pdfDoc' = 0
    /\ pdfArrayBuffer' = "null"
    /\ chunks' = <<>>
    /\ selectedChunk' = NullChunk
    /\ nextChunkId' = 1
    /\ hasOutline' = "null"
    /\ qaCache' = EmptyCache
    /\ isGeneratingAll' = FALSE
    /\ generationProgress' = NoProgress

\* handleFileChange with a PDF selected, up to reader.readAsArrayBuffer.
HandleFileChangePdf ==
    /\ FileInputEnabled
    /\ ResetStateForNewFile
    /\ appError' = "null"
    /\ file' = "pdf"
    /\ isParsing' = TRUE
    /\ ldPc' = "reading"
    /\ uploads' = uploads + 1
    /\ asEnded' = NotEnded
    /\ UNCHANGED <<isAutoSplitting, ldDoc, asVars, genVars, qaVars, visited, formError, adds>>

\* handleFileChange with no file or a file of another type.
HandleFileChangeOther ==
    /\ FileInputEnabled
    /\ appError' = MsgInvalidFile
    /\ file' = "null"
    /\ pdfDoc' = 0
    /\ uploads' = uploads + 1
    /\ asEnded' = NotEnded
    /\ UNCHANGED <<pdfArrayBuffer, isParsing, chunks, nextChunkId, selectedChunk,
                   isAutoSplitting, hasOutline, qaCache, isGeneratingAll,
                   generationProgress, ldVars, asVars, genVars, qaVars, visited, formError, adds>>

ReaderOnError ==
    /\ ldPc = "reading"
    /\ appError' = MsgReadFailed
    /\ isParsing' = FALSE
    /\ ldPc' = "idle"
    /\ asEnded' = NotEnded
    /\ UNCHANGED <<file, pdfDoc, pdfArrayBuffer, chunks, nextChunkId, selectedChunk,
                   isAutoSplitting, hasOutline, qaCache, isGeneratingAll,
                   generationProgress, ldDoc, asVars, genVars, qaVars, envVars>>

\* reader.onload up to the await of the loading task.
ReaderOnLoad ==
    /\ ldPc = "reading"
    /\ pdfArrayBuffer' = "bytes"
    /\ ldPc' = "getDocument"
    /\ asEnded' = NotEnded
    /\ UNCHANGED <<file, pdfDoc, appError, isParsing, chunks, nextChunkId, selectedChunk,
                   isAutoSplitting, hasOutline, qaCache, isGeneratingAll,
                   generationProgress, ldDoc, asVars, genVars, qaVars, envVars>>

\* The catch and finally blocks of reader.onload: setAppError, then
\* resetStateForNewFile, whose setAppError(null) is the later update.
LoadCatch ==
    /\ ResetStateForNewFile
    /\ appError' = "null"
    /\ file' = "null"
    /\ isParsing' = FALSE
    /\ ldPc' = "idle"
    /\ ldDoc' = 0
    /\ UNCHANGED <<isAutoSplitting, asVars, genVars, qaVars, envVars>>

GetDocumentResolves(numPages) ==
    /\ ldPc = "getDocument"
    /\ pdfDoc' = numPages
    /\ ldDoc' = numPages
    /\ ldPc' = "getOutline"
    /\ asEnded' = NotEnded
    /\ UNCHANGED <<file, pdfArrayBuffer, appError, isParsing, chunks, nextChunkId,
                   selectedChunk, isAutoSplitting, hasOutline, qaCache,
                   isGeneratingAll, generationProgress, asVars, genVars, qaVars, envVars>>

GetDocumentRejects ==
    /\ ldPc = "getDocument"
    /\ LoadCatch
    /\ asEnded' = NotEnded

\* pdf.getOutline() answered while loading; outline is "null", "empty" or "items".
LoadOutlineResolves(outline) ==
    /\ ldPc = "getOutline"
    /\ hasOutline' = IF outline = "items" THEN "true" ELSE "false"
    /\ ldPc' = "textCheck"
    /\ asEnded' = NotEnded
    /\ UNCHANGED <<file, pdfDoc, pdfArrayBuffer, appError, isParsing, chunks, nextChunkId,
                   selectedChunk, isAutoSplitting, qaCache, isGeneratingAll,
                   generationProgress, ldDoc, asVars, genVars, qaVars, envVars>>

LoadOutlineRejects ==
    /\ ldPc = "getOutline"
    /\ LoadCatch
    /\ asEnded' = NotEnded

\* The text check of page 1, which cannot fail the load, and the finally
\* block.  Its result, isTextBased, only selects a badge and is left out.
TextCheckDone ==
    /\ ldPc = "textCheck"
    /\ isParsing' = FALSE
    /\ ldPc' = "idle"
    /\ ldDoc' = 0
    /\ asEnded' = NotEnded
    /\ UNCHANGED <<file, pdfDoc, pdfArrayBuffer, appError, chunks, nextChunkId,
                   selectedChunk, isAutoSplitting, hasOutline, qaCache, isGeneratingAll,
                   generationProgress, asVars, genVars, qaVars, envVars>>

\* ------------------------------------------------------ manual add / delete
\* [...prev, newChunk].sort((a, b) => a.startPage - b.startPage): stable.
InsertByStart(s, c) ==
    LET k == Cardinality({i \in 1..Len(s) : s[i].startPage <= c.startPage})
    IN  SubSeq(s, 1, k) \o <<c>> \o SubSeq(s, k + 1, Len(s))

RECURSIVE SortByStart(_)
SortByStart(s) ==
    IF s = <<>> THEN <<>>
    ELSE InsertByStart(SortByStart(SubSeq(s, 1, Len(s) - 1)), s[Len(s)])

AddChunkErrorAllowsLong(start, end, numPages) ==
    IF start <= 0 \/ end <= 0 THEN "Page numbers must be greater than 0."
    ELSE IF start > end THEN "Start page cannot be greater than end page."
    ELSE IF start > numPages \/ end > numPages
        THEN "Page number cannot be greater than numPages."
    ELSE ""

\* The message handleAddChunk sets for the parsed inputs, "" when it accepts
\* them.  0 stands for NaN, which the first test rejects like any value <= 0.
AddChunkError(start, end, numPages) ==
    IF start <= 0 \/ end <= 0 THEN "Page numbers must be greater than 0."
    ELSE IF start > end THEN "Start page cannot be greater than end page."
    ELSE IF start > numPages \/ end > numPages
        THEN "Page number cannot be greater than numPages."
    ELSE IF end - start + 1 > 4 THEN "Chunk cannot exceed 4 pages."
    ELSE ""

\* App.addChunk
AddChunk(start, end) ==
    LET newChunk == [id |-> nextChunkId, startPage |-> start, endPage |-> end,
                     contextTitle |-> 0]
    IN  /\ chunks' = SortByStart(Append(chunks, newChunk))
        /\ nextChunkId' = nextChunkId + 1
        /\ selectedChunk' = newChunk

\* ChunkManager.handleAddChunk
HandleAddChunk(start, end) ==
    /\ MainUI
    /\ adds' = adds + 1
    /\ formError' = AddChunkError(start, end, pdfDoc)
    /\ IF AddChunkError(start, end, pdfDoc) = ""
       THEN AddChunk(start, end)
       ELSE UNCHANGED <<chunks, nextChunkId, selectedChunk>>
    /\ asEnded' = NotEnded
    /\ UNCHANGED <<file, pdfDoc, pdfArrayBuffer, appError, isParsing, isAutoSplitting,
                   hasOutline, qaCache, isGeneratingAll, generationProgress,
                   ldVars, asVars, genVars, qaVars, visited, uploads>>

ChunkIds == {chunks[i].id : i \in 1..Len(chunks)}

\* App.deleteChunk, from the delete button of a listed chunk.
DeleteChunk(id) ==
    /\ MainUI
    /\ id \in ChunkIds
    /\ chunks' = SelectSeq(chunks, LAMBDA chunk : chunk.id # id)
    /\ qaCache' = [k \in (DOMAIN qaCache) \ {id} |-> qaCache[k]]
    /\ selectedChunk' = IF selectedChunk.id = id THEN NullChunk ELSE selectedChunk
    /\ asEnded' = NotEnded
    /\ UNCHANGED <<file, pdfDoc, pdfArrayBuffer, appError, isParsing, nextChunkId,
                   isAutoSplitting, hasOutline, isGeneratingAll,
                   generationProgress, ldVars, asVars, genVars, qaVars, envVars>>

\* ----------------------------------------------------------- autoSplitPdf
\* The split button of the chunk manager can be clicked.
AutoSplitButtonEnabled == MainUI /\ ~isAutoSplitting /\ hasOutline # "false"

\* The call has ended and its locals are gone.
AsIdle ==
    /\ asPc' = "idle"
    /\ depth' = 0
    /\ entered' = FALSE
    /\ asDoc' = 0
    /\ bookmarks' = <<>>
    /\ walked' = <<>>

\* autoSplitPdf returning at its first line: hasOutline is still null.
AutoSplitReturnsEarly ==
    /\ AutoSplitButtonEnabled
    /\ hasOutline # "true"
    /\ asEnded' = Ended("early")
    /\ UNCHANGED <<appVars, ldVars, asVars, genVars, qaVars, envVars>>

\* autoSplitPdf up to its await of pdfDoc.getOutline().
AutoSplitStart ==
    /\ AutoSplitButtonEnabled
    /\ hasOutline = "true"
    /\ isAutoSplitting' = TRUE
    /\ appError' = "null"
    /\ asPc' = "getOutline"
    /\ asDoc' = pdfDoc
    /\ bookmarks' = <<>>
    /\ walked' = <<>>
    /\ depth' = 0
    /\ entered' = FALSE
    /\ asEnded' = NotEnded
    /\ UNCHANGED <<file, pdfDoc, pdfArrayBuffer, isParsing, chunks, nextChunkId,
                   selectedChunk, hasOutline, qaCache, isGeneratingAll,
                   generationProgress, ldVars, genVars, qaVars, envVars>>

AutoSplitCatchKeepsChunks(message) ==
    /\ appError' = message
    /\ UNCHANGED chunks
    /\ nextChunkId' = 1
    /\ selectedChunk' = NullChunk
    /\ isAutoSplitting' = FALSE
    /\ AsIdle
    /\ UNCHANGED <<file, pdfDoc, pdfArrayBuffer, isParsing, hasOutline,
                   qaCache, isGeneratingAll, generationProgress, ldVars, genVars, qaVars, envVars>>

AutoSplitCatchKeepsCounter(message) ==
    /\ appError' = message
    /\ chunks' = <<>>
    /\ UNCHANGED nextChunkId
    /\ selectedChunk' = NullChunk
    /\ isAutoSplitting' = FALSE
    /\ AsIdle
    /\ UNCHANGED <<file, pdfDoc, pdfArrayBuffer, isParsing, hasOutline,
                   qaCache, isGeneratingAll, generationProgress, ldVars, genVars, qaVars, envVars>>

\* The catch block without the finally block.
AutoSplitCatchWithoutFinally(message) ==
    /\ appError' = message
    /\ chunks' = <<>>
    /\ nextChunkId' = 1
    /\ selectedChunk' = NullChunk
    /\ UNCHANGED isAutoSplitting
    /\ AsIdle
    /\ UNCHANGED <<file, pdfDoc, pdfArrayBuffer, isParsing, hasOutline,
                   qaCache, isGeneratingAll, generationProgress, ldVars, genVars, qaVars, envVars>>

\* The catch and finally blocks of autoSplitPdf.
AutoSplitCatch(message) ==
    /\ appError' = message
    /\ chunks' = <<>>
    /\ nextChunkId' = 1
    /\ selectedChunk' = NullChunk
    /\ isAutoSplitting' = FALSE
    /\ AsIdle
    /\ UNCHANGED <<file, pdfDoc, pdfArrayBuffer, isParsing, hasOutline,
                   qaCache, isGeneratingAll, generationProgress, ldVars, genVars, qaVars, envVars>>

\* getOutline answers null: the "No outline found" throw.
AutoSplitOutlineNull ==
    /\ asPc = "getOutline"
    /\ AutoSplitCatch(MsgNoOutline)
    /\ asEnded' = Ended("noOutline")

AutoSplitOutlineRejects ==
    /\ asPc = "getOutline"
    /\ AutoSplitCatch(MsgOutlineRejected)
    /\ asEnded' = Ended("rejected")

\* getOutline answers an array: processOutline(outline) is entered.
AutoSplitOutlineArray ==
    /\ asPc = "getOutline"
    /\ asPc' = "walk"
    /\ depth' = 1
    /\ entered' = FALSE
    /\ asEnded' = NotEnded
    /\ UNCHANGED <<appVars, ldVars, asDoc, bookmarks, walked, genVars, qaVars, envVars>>

\* One iteration of the for loop of processOutline: the item is resolved or
\* skipped, then processOutline recurses when the item has children.  The
\* title of an item is its position in the walk.
ProcessOutlineItem(item, hasItems) ==
    /\ asPc = "walk"
    /\ bookmarks' = IF ItemPage(item) > 0
                    THEN Append(bookmarks, [title |-> visited + 1, page |-> ItemPage(item)])
                    ELSE bookmarks
    /\ visited' = visited + 1
    /\ depth' = IF hasItems THEN depth + 1 ELSE depth
    /\ entered' = hasItems
    /\ walked' = Append(walked, [depth |-> depth, hasItems |-> hasItems,
                                 pageIndex |-> IF HasDestination(item)
                                               THEN item.pageIndex ELSE -1])
    /\ asEnded' = NotEnded
    /\ UNCHANGED <<appVars, ldVars, asPc, asDoc, genVars, qaVars, formError, adds, uploads>>

\* The for loop of a nested processOutline call runs out of items.
ProcessOutlineReturns ==
    /\ asPc = "walk"
    /\ ~entered
    /\ depth > 1
    /\ depth' = depth - 1
    /\ asEnded' = NotEnded
    /\ UNCHANGED <<appVars, ldVars, asPc, asDoc, bookmarks, entered, walked, genVars,
                   qaVars, envVars>>

\* The outermost processOutline returns with no bookmark recorded.
AutoSplitNoBookmarks ==
    /\ asPc = "walk"
    /\ ~entered
    /\ depth = 1
    /\ bookmarks = <<>>
    /\ AutoSplitCatch(MsgNoStructure)
    /\ asEnded' = Ended("noBookmarks")

\* The outermost processOutline returns with bookmarks: the chunks are
\* computed and installed, then the finally block runs.
AutoSplitSucceeds ==
    /\ asPc = "walk"
    /\ ~entered
    /\ depth = 1
    /\ bookmarks # <<>>
    /\ LET newChunksWithId == SplitResult(bookmarks, asDoc)
       IN  /\ chunks' = newChunksWithId
           /\ nextChunkId' = Len(newChunksWithId) + 1
           /\ selectedChunk' = IF Len(newChunksWithId) > 0 THEN newChunksWithId[1]
                               ELSE NullChunk
    /\ qaCache' = EmptyCache
    /\ isAutoSplitting' = FALSE
    /\ AsIdle
    /\ asEnded' = Ended("chunks")
    /\ UNCHANGED <<file, pdfDoc, pdfArrayBuffer, appError, isParsing, hasOutline,
                   isGeneratingAll, generationProgress, ldVars, genVars, qaVars,
                   envVars>>

\* ------------------------------------------------ specification: chunking
InitApp ==
    /\ file = "null"
    /\ pdfDoc = 0
    /\ pdfArrayBuffer = "null"
    /\ appError = "null"
    /\ isParsing = FALSE
    /\ chunks = <<>>
    /\ nextChunkId = 1
    /\ selectedChunk = NullChunk
    /\ isAutoSplitting = FALSE
    /\ hasOutline = "null"
    /\ qaCache = EmptyCache
    /\ isGeneratingAll = FALSE
    /\ generationProgress = NoProgress
    /\ ldPc = "idle"
    /\ ldDoc = 0
    /\ asPc = "idle"
    /\ asDoc = 0
    /\ bookmarks = <<>>
    /\ walked = <<>>
    /\ visited = 0
    /\ depth = 0
    /\ entered = FALSE
    /\ formError = ""
    /\ adds = 0
    /\ uploads = 0

InitGenIdle ==
    /\ genPc = "idle"
    /\ genText = ""
    /\ genImages = "undefined"
    /\ attempt = 0
    /\ lastError = NoError
    /\ requests = 0
    /\ errors = <<>>
    /\ delays = <<>>
    /\ genResult = NoResult

\* No generation was started yet; a valid non-empty body holds one plain pair.
InitQaIdle ==
    /\ sgPc = "idle"
    /\ sgChunk = NullChunk
    /\ sgFile = "null"
    /\ sgMount = 0
    /\ qgError = [mount |-> 0, message |-> "null"]
    /\ baPc = "idle"
    /\ baChunks = <<>>
    /\ baFile = "null"
    /\ baCompleted = 0
    /\ baLog = <<>>
    /\ saved = NoDownload

InitSplit ==
    /\ InitApp
    /\ InitGenIdle
    /\ InitQaIdle
    /\ parsedData = PlainBody
    /\ asEnded = NotEnded

\* What the user types into the manual form in this specification: a valid
\* range and a rejected one.
SplitAddInputs == {<<1, 1>>, <<2, 1>>}

\* The environment of this specification: a file is selected only while no
\* earlier selection is being parsed and no split is pending, and outlines
\* are walked as flat lists (any list of bookmarks arises from one).  Chunks
\* are not deleted here.
NextSplit ==
    \/ /\ uploads < MaxUploads
       /\ ldPc = "idle"
       /\ asPc = "idle"
       /\ HandleFileChangePdf
    \/ /\ uploads < MaxUploads
       /\ ldPc = "idle"
       /\ asPc = "idle"
       /\ HandleFileChangeOther
    \/ ReaderOnError
    \/ ReaderOnLoad
    \/ \E numPages \in 1..MaxPages : GetDocumentResolves(numPages)
    \/ GetDocumentRejects
    \/ \E outline \in {"null", "empty", "items"} : LoadOutlineResolves(outline)
    \/ LoadOutlineRejects
    \/ TextCheckDone
    \/ /\ adds < MaxAdds
       /\ \E input \in SplitAddInputs : HandleAddChunk(input[1], input[2])
    \/ AutoSplitReturnsEarly
    \/ AutoSplitStart
    \/ AutoSplitOutlineNull
    \/ AutoSplitOutlineRejects
    \/ AutoSplitOutlineArray
    \/ /\ visited < MaxItems
       /\ \E item \in OutlineItems(asDoc) : ProcessOutlineItem(item, FALSE)
    \/ AutoSplitNoBookmarks
    \/ AutoSplitSucceeds

SpecSplit == InitSplit /\ [][NextSplit]_vars

\* ------------------------------------------------- properties of the split
Span(chunk) == chunk.endPage - chunk.startPage + 1

PagesOf(cs) == UNION {cs[i].startPage .. cs[i].endPage : i \in 1..Len(cs)}

BookmarkPages == {asEnded.bookmarks[i].page : i \in 1..Len(asEnded.bookmarks)}

SmallestBookmarkPage == CHOOSE p \in BookmarkPages : \A q \in BookmarkPages : p <= q

AsFailed == asEnded.how \in {"noOutline", "rejected", "noBookmarks"}

\* C1: right after a successful autoSplitPdf on a document of N pages, no
\* page belongs to two chunks, and every chunk lies within 1..N and spans
\* at most 4 pages.
C1_SplitChunksDisjointBounded ==
    asEnded.how = "chunks" =>
        /\ \A i \in 1..Len(chunks) :
               /\ 1 <= chunks[i].startPage
               /\ chunks[i].startPage <= chunks[i].endPage
               /\ chunks[i].endPage <= asEnded.numPages
               /\ Span(chunks[i]) <= 4
        /\ \A i, j \in 1..Len(chunks) :
               i # j => (chunks[i].startPage .. chunks[i].endPage)
                            \cap (chunks[j].startPage .. chunks[j].endPage) = {}

\* C1 witness: a split that cut a section longer than 4 pages into a 4-page
\* chunk and a following chunk of the same section.
C1_Witness ==
    /\ asEnded.how = "chunks"
    /\ \E i \in 1..(Len(chunks) - 1) :
           /\ Span(chunks[i]) = 4
           /\ chunks[i + 1].contextTitle = chunks[i].contextTitle

\* C2: right after a successful autoSplitPdf the chunks are contiguous in list
\* order and cover exactly the pages from the smallest bookmark page to the
\* last page of the document, hence every page when a bookmark is on page 1.
C2_SplitChunksContiguousCover ==
    asEnded.how = "chunks" =>
        /\ \A i \in 2..Len(chunks) : chunks[i].startPage = chunks[i - 1].endPage + 1
        /\ PagesOf(chunks) = SmallestBookmarkPage .. asEnded.numPages
        /\ 1 \in BookmarkPages => PagesOf(chunks) = 1 .. asEnded.numPages

\* C2 witness: a split whose first bookmark is past page 1 and which produced
\* several chunks, so that the pages before the first bookmark stay uncovered.
C2_Witness ==
    /\ asEnded.how = "chunks"
    /\ SmallestBookmarkPage > 1
    /\ Len(chunks) >= 2
    /\ 1 \notin PagesOf(chunks)

\* C3: right after a successful autoSplitPdf the ids are 1..k in list order,
\* list order is ascending page order, and nextChunkId is k + 1.
C3_SplitIdsSequential ==
    asEnded.how = "chunks" =>
        /\ \A i \in 1..Len(chunks) : chunks[i].id = i
        /\ \A i, j \in 1..Len(chunks) :
               i < j => chunks[i].startPage < chunks[j].startPage
        /\ nextChunkId = Len(chunks) + 1

\* C3 witness: a split that ended after the one manual add of the behaviour
\* was accepted, so a manual chunk and a raised counter preceded its result.
C3_Witness ==
    /\ asEnded.how = "chunks"
    /\ adds = 1
    /\ formError = ""
    /\ Len(chunks) >= 2
    /\ nextChunkId = Len(chunks) + 1

\* The first bookmark on page p once the bookmarks are sorted.
FirstSortedOnPage(p) ==
    LET sorted == SortByPage(asEnded.bookmarks)
        first == CHOOSE i \in 1..Len(sorted) :
                     /\ sorted[i].page = p
                     /\ \A j \in 1..(i - 1) : sorted[j].page # p
    IN  sorted[first]

\* C4: right after a successful autoSplitPdf, exactly one chunk starts on each
\* bookmark page, its title is that of the first bookmark on that page in
\* sorted order, and every chunk carries the title of such a section.
C4_SplitDedupFirstTitle ==
    asEnded.how = "chunks" =>
        /\ \A p \in BookmarkPages :
               /\ Cardinality({i \in 1..Len(chunks) : chunks[i].startPage = p}) = 1
               /\ \A i \in 1..Len(chunks) :
                      chunks[i].startPage = p =>
                          chunks[i].contextTitle = FirstSortedOnPage(p).title
        /\ \A i \in 1..Len(chunks) :
               \E p \in BookmarkPages :
                   /\ p <= chunks[i].startPage
                   /\ chunks[i].contextTitle = FirstSortedOnPage(p).title

\* C4 witness: a split over bookmarks of which two share a page and a third,
\* recorded before them, lies on a later page.
C4_Witness ==
    /\ asEnded.how = "chunks"
    /\ Len(asEnded.bookmarks) = 3
    /\ asEnded.bookmarks[2].page = asEnded.bookmarks[3].page
    /\ asEnded.bookmarks[1].page > asEnded.bookmarks[2].page

\* C5 (as claimed): a walk that resolved no bookmark fails with a message of
\* its own, and the chunk list is empty after auto-split was invoked on an
\* outline without resolvable bookmarks or without an outline, whatever it
\* held before.
C5_Original ==
    /\ asEnded.how = "noBookmarks" => (appError = MsgNoStructure /\ chunks = <<>>)
    /\ asEnded.how = "noOutline" => (appError = MsgNoOutline /\ chunks = <<>>)
    /\ asEnded.how = "early" => chunks = <<>>
    /\ MsgNoStructure # MsgNoOutline

\* C5 (amended): a walk that resolved no bookmark, and a null outline at
\* split time, each fail with a message of their own and leave the chunk
\* list empty; a call made while hasOutline is not true returns at once and
\* changes neither the chunk list nor the error.
C5_Amended ==
    [][/\ asEnded'.how = "noBookmarks" => (appError' = MsgNoStructure /\ chunks' = <<>>)
       /\ asEnded'.how = "noOutline" => (appError' = MsgNoOutline /\ chunks' = <<>>)
       /\ asEnded'.how = "early" =>
              (hasOutline # "true" /\ UNCHANGED <<chunks, nextChunkId, appError>>)
       /\ MsgNoStructure # MsgNoOutline]_vars

\* C5 witness: a walk that resolved no bookmark has just failed, after the
\* one manual add of the behaviour was accepted, and the list is empty.
C5_Witness ==
    /\ asEnded.how = "noBookmarks"
    /\ appError = MsgNoStructure
    /\ adds = 1
    /\ formError = ""
    /\ visited >= 2
    /\ chunks = <<>>

\* C6: no partial result of a split is applied: while a split is pending no
\* chunk carries the title of one of its bookmarks, and right after a split
\* failed the list is empty, nextChunkId is 1, nothing is selected and an
\* auto-split error is shown.
C6_FailedSplitAppliesNothing ==
    /\ asPc # "idle" =>
           \A i \in 1..Len(chunks), j \in 1..Len(bookmarks) :
               chunks[i].contextTitle # bookmarks[j].title
    /\ AsFailed =>
           /\ chunks = <<>>
           /\ nextChunkId = 1
           /\ selectedChunk = NullChunk
           /\ appError \in AutoSplitErrors

\* C6 witness: getOutline was rejected at split time after the one manual add
\* of the behaviour was accepted; the list is empty and the counter is 1.
C6_Witness ==
    /\ asEnded.how = "rejected"
    /\ appError = MsgOutlineRejected
    /\ adds = 1
    /\ formError = ""
    /\ chunks = <<>>
    /\ nextChunkId = 1

\* ------------------------------------------- generateQuestionsAndAnswers
MsgAccessDenied ==
    "API access denied. This may be due to regional restrictions or an invalid/disabled API key. Please check your API key and that you are in a supported region."
MsgLocationDenied == "API access denied: User location is not supported for this model."
MsgRateLimit ==
    "Rate limit exceeded. The API is receiving too many requests. Please wait a moment before trying again or reduce the request frequency."
MsgGeneric ==
    "Failed to generate Q&A pairs after 3 attempts. The model may be unavailable or the content could not be processed. Check the console for details."

\* Messages of the errors an attempt can end with.  The last four are those of
\* the errors the attempt itself raises: response.text undefined, and the
\* rethrown parse errors (JSON.parse reporting the end of input, JSON.parse
\* quoting a short unparseable body, the format check).
ApiMessages ==
    {"undefined",
     "Internal error encountered.",
     "API key not valid. Please pass a valid API key.",
     "Region not supported",
     "User location is not supported for the API use."}
MsgNoText == "Cannot read properties of undefined (reading 'trim')"
MsgParseEnd == "Failed to parse JSON response: Unexpected end of JSON input"
MsgParseQuotesKey ==
    "Failed to parse JSON response: Unexpected token 'A', 'API key not valid' is not valid JSON"
\* JSON.parse's message is the engine's: this one quotes no part of the body.
MsgParseNoEcho ==
    "Failed to parse JSON response: JSON.parse: unexpected character at line 1 column 1 of the JSON data"
MsgParseFormat ==
    "Failed to parse JSON response: Generated JSON does not match the required Q&A format."

\* error?.message?.toLowerCase() || ''
ToLowerCase(message) ==
    CASE message = "undefined" -> ""
      [] message = "Internal error encountered." -> "internal error encountered."
      [] message = "API key not valid. Please pass a valid API key."
            -> "api key not valid. please pass a valid api key."
      [] message = "Region not supported" -> "region not supported"
      [] message = "User location is not supported for the API use."
            -> "user location is not supported for the api use."
      [] message = MsgNoText -> "cannot read properties of undefined (reading 'trim')"
      [] message = MsgParseEnd
            -> "failed to parse json response: unexpected end of json input"
      [] message = MsgParseQuotesKey
            -> "failed to parse json response: unexpected token 'a', 'api key not valid' is not valid json"
      [] message = MsgParseFormat
            -> "failed to parse json response: generated json does not match the required q&a format."
      [] message = MsgParseNoEcho
            -> "failed to parse json response: json.parse: unexpected character at line 1 column 1 of the json data"

\* errorMessage.includes(phrase), for the three phrases the code looks for.
Includes(errorMessage, phrase) ==
    CASE phrase = "region not supported" -> errorMessage = "region not supported"
      [] phrase = "api key not valid" ->
            errorMessage \in
                {"api key not valid. please pass a valid api key.",
                 "failed to parse json response: unexpected token 'a', 'api key not valid' is not valid json"}
      [] phrase = "user location is not supported" ->
            errorMessage = "user location is not supported for the api use."

\* An error as the catch block reads it: error.status, error.error.code,
\* error.error.status and error.message.  "s:" marks a string, "n:" a number.
ApiErrors ==
    [status : {"undefined", "s:PERMISSION_DENIED", "n:429"},
     code : {"undefined", "n:403"},
     bodyStatus : {"undefined", "s:RESOURCE_EXHAUSTED"},
     message : ApiMessages]

PlainError(message) ==
    [status |-> "undefined", code |-> "undefined", bodyStatus |-> "undefined",
     message |-> message]

\* response.text of a resolved request.
ResponseTexts ==
    {"undefined", "", "API key not valid", "{}", "[{question}]", "[]",
     "[{question,answer}]"}

\* The attempt's outcome for a response: "ok" when the parsed data is
\* returned, else the error the outer catch receives.
ResponseError(text) ==
    CASE text = "undefined" -> PlainError(MsgNoText)
      [] text = "" -> PlainError(MsgParseEnd)
      [] text = "API key not valid" -> PlainError(MsgParseQuotesKey)
      [] text \in {"{}", "[{question}]"} -> PlainError(MsgParseFormat)
      [] OTHER -> NoError

\* The errors the attempt can raise for a response: that of ResponseError,
\* or, for a body JSON.parse rejects at its first character, the message of
\* an engine that does not quote the body.
ResponseErrors(text) ==
    {ResponseError(text)}
        \cup (IF text = "API key not valid" THEN {PlainError(MsgParseNoEcho)} ELSE {})

TwoPairsText == "[{question,answer},{question,answer}]"

ResponseValid(text) == text \in {"[]", "[{question,answer}]", TwoPairsText}

IsPermissionDeniedStatusOnly(error) == error.status = "s:PERMISSION_DENIED"

\* The test of line 119.
IsPermissionDenied(error) ==
    \/ error.status = "s:PERMISSION_DENIED"
    \/ Includes(ToLowerCase(error.message), "region not supported")
    \/ Includes(ToLowerCase(error.message), "api key not valid")

\* The test of line 125.
IsLocationDenied(error) ==
    /\ error.code = "n:403"
    /\ Includes(ToLowerCase(error.message), "user location is not supported")

Retriable(error) == ~IsPermissionDenied(error) /\ ~IsLocationDenied(error)

RECURSIVE Pow2(_)
Pow2(n) == IF n <= 0 THEN 1 ELSE 2 * Pow2(n - 1)

BackoffDelayFromAttempt(k) == BASE_DELAY_MS * Pow2(k)

\* 1500 * Math.pow(2, attempt - 1)
BackoffDelay(k) == BASE_DELAY_MS * Pow2(k - 1)

LoopRunsOnceMore(k) == k <= MAX_RETRIES + 1

\* The loop test, attempt <= MAX_RETRIES.
LoopRuns(k) == k <= MAX_RETRIES

\* if (attempt < MAX_RETRIES)
BacksOff(k) == k < MAX_RETRIES

\* The test of line 143 on the last error.
IsRateLimit(error) ==
    error.status = "n:429" \/ error.bodyStatus = "s:RESOURCE_EXHAUSTED"

FinalMessage(error) == IF IsRateLimit(error) THEN MsgRateLimit ELSE MsgGeneric

BlankOnlyWhenEmpty(text) == text = ""

\* !text.trim()
Blank(text) == text \in {"", "   "}

HasImages(images) == images # "undefined" /\ Len(images) > 0

CaughtErrorKeepsFirst(previous, error) == IF previous = NoError THEN error ELSE previous

\* lastError = error
CaughtError(previous, error) == error

GenLocals == <<attempt, lastError, requests, errors, delays>>

\* A call of generateQuestionsAndAnswers with nothing to send.
GenReturnsEmpty(text, images) ==
    /\ genPc \in {"idle", "returned", "thrown"}
    /\ Blank(text) /\ ~HasImages(images)
    /\ genText' = text
    /\ genImages' = images
    /\ attempt' = 0
    /\ lastError' = NoError
    /\ requests' = 0
    /\ errors' = <<>>
    /\ delays' = <<>>
    /\ genPc' = "returned"
    /\ genResult' = [kind |-> "returned", value |-> "[]"]
    /\ asEnded' = NotEnded
    /\ UNCHANGED <<appVars, ldVars, asVars, envVars, qaVars>>

\* A call up to the await of its first request: what it does to its locals.
GenBegin(text, images) ==
    /\ genPc \in {"idle", "returned", "thrown"}
    /\ ~(Blank(text) /\ ~HasImages(images))
    /\ genText' = text
    /\ genImages' = images
    /\ attempt' = 1
    /\ lastError' = NoError
    /\ requests' = 1
    /\ errors' = <<>>
    /\ delays' = <<>>
    /\ genPc' = "request"
    /\ genResult' = NoResult

\* A call by itself.
GenStart(text, images) ==
    /\ GenBegin(text, images)
    /\ asEnded' = NotEnded
    /\ UNCHANGED <<appVars, ldVars, asVars, envVars, qaVars>>

\* The request resolves with a body that parses to the required shape.
GenAttemptSucceeds(text) ==
    /\ genPc = "request"
    /\ ResponseValid(text)
    /\ genPc' = "returned"
    /\ genResult' = [kind |-> "returned", value |-> text]
    /\ asEnded' = NotEnded
    /\ UNCHANGED <<appVars, ldVars, asVars, envVars, qaVars, genText, genImages, GenLocals>>

\* The catch block of the loop for the error of a failed attempt, and what
\* follows it without an await: a throw, the start of a sleep, or the end of
\* the loop and the final throw.
GenCatch(error) ==
    /\ genPc = "request"
    /\ lastError' = CaughtError(lastError, error)
    /\ errors' = Append(errors, error)
    /\ IF IsPermissionDenied(error)
       THEN /\ genPc' = "thrown"
            /\ genResult' = [kind |-> "thrown", value |-> MsgAccessDenied]
            /\ UNCHANGED <<attempt, requests, delays>>
       ELSE IF IsLocationDenied(error)
       THEN /\ genPc' = "thrown"
            /\ genResult' = [kind |-> "thrown", value |-> MsgLocationDenied]
            /\ UNCHANGED <<attempt, requests, delays>>
       ELSE IF BacksOff(attempt)
       THEN /\ genPc' = "sleep"
            /\ delays' = Append(delays, BackoffDelay(attempt))
            /\ UNCHANGED <<attempt, requests, genResult>>
       ELSE IF LoopRuns(attempt + 1)
       THEN /\ genPc' = "request"
            /\ attempt' = attempt + 1
            /\ requests' = requests + 1
            /\ UNCHANGED <<delays, genResult>>
       ELSE /\ genPc' = "thrown"
            /\ attempt' = attempt + 1
            /\ genResult' = [kind |-> "thrown",
                              value |-> FinalMessage(CaughtError(lastError, error))]
            /\ UNCHANGED <<requests, delays>>
    /\ asEnded' = NotEnded
    /\ UNCHANGED <<appVars, ldVars, asVars, envVars, qaVars, genText, genImages>>

\* The request rejects.
GenRequestRejects(error) == GenCatch(error)

\* The request resolves with a body the attempt cannot use.
GenResponseUnusable(text) ==
    /\ ~ResponseValid(text)
    /\ \E error \in ResponseErrors(text) : GenCatch(error)

\* The sleep ends: the next iteration sends its request.
GenSleepEnds ==
    /\ genPc = "sleep"
    /\ attempt' = attempt + 1
    /\ IF LoopRuns(attempt + 1)
       THEN /\ genPc' = "request"
            /\ requests' = requests + 1
            /\ UNCHANGED genResult
       ELSE /\ genPc' = "thrown"
            /\ genResult' = [kind |-> "thrown", value |-> FinalMessage(lastError)]
            /\ UNCHANGED requests
    /\ asEnded' = NotEnded
    /\ UNCHANGED <<appVars, ldVars, asVars, envVars, qaVars, genText, genImages, lastError,
                   errors, delays>>

\* ----------------------------------- specification: the generation client
InitGen ==
    /\ InitApp
    /\ InitGenIdle
    /\ InitQaIdle
    /\ parsedData = PlainBody
    /\ asEnded = NotEnded

GenTexts == {"", "   ", "text of the chunk"}
GenImageArgs == {"undefined", <<>>, <<"base64 pdf">>}

NextGen ==
    \/ \E text \in GenTexts, images \in GenImageArgs : GenReturnsEmpty(text, images)
    \/ \E text \in GenTexts, images \in GenImageArgs : GenStart(text, images)
    \/ \E text \in ResponseTexts : GenAttemptSucceeds(text)
    \/ \E error \in ApiErrors : GenRequestRejects(error)
    \/ \E text \in ResponseTexts : GenResponseUnusable(text)
    \/ GenSleepEnds

SpecGen == InitGen /\ [][NextGen]_vars

\* ------------------------------------- properties of the generation client
\* The error carries one of the signals of the two non-retriable classes,
\* read off the fields and the message text.
DenialSignal(error) ==
    \/ error.status = "s:PERMISSION_DENIED"
    \/ error.message \in {"Region not supported",
                         "API key not valid. Please pass a valid API key.",
                         MsgParseQuotesKey}
    \/ /\ error.code = "n:403"
       /\ error.message = "User location is not supported for the API use."

RECURSIVE SumSeq(_)
SumSeq(s) == IF s = <<>> THEN 0 ELSE s[1] + SumSeq(Tail(s))

\* C7: a call makes at most 3 requests; every request but the one pending or
\* the one answered by the returned body has failed, so none follows the
\* first valid response.
C7_AtMostThreeRequests ==
    /\ requests <= 3
    /\ genPc = "request" => requests = Len(errors) + 1
    /\ genPc \in {"sleep", "thrown"} => requests = Len(errors)
    /\ (genPc = "returned" /\ requests > 0) => requests = Len(errors) + 1

\* C7 witness: a call returned the body of its third request after two
\* failed attempts.
C7_Witness ==
    /\ genPc = "returned"
    /\ requests = 3
    /\ Len(errors) = 2

\* C8: an attempt whose error carries a denial signal is the last one: the
\* call has thrown an access-denied message, made no further request and
\* waited only after the attempts before it.
C8_DenialAbortsAtOnce ==
    \A k \in 1..Len(errors) :
        DenialSignal(errors[k]) =>
            /\ k = Len(errors)
            /\ genPc = "thrown"
            /\ genResult.kind = "thrown"
            /\ genResult.value \in {MsgAccessDenied, MsgLocationDenied}
            /\ genResult.value \notin {MsgRateLimit, MsgGeneric}
            /\ requests = k
            /\ Len(delays) = k - 1

\* C8 witness: the third attempt failed with status 429 and an invalid-key
\* message, and the call threw the access-denied message.
C8_Witness ==
    /\ Len(errors) = 3
    /\ errors[3].status = "n:429"
    /\ errors[3].message = "API key not valid. Please pass a valid API key."
    /\ genPc = "thrown"
    /\ genResult.value = MsgAccessDenied

\* C9: the sleeps of a call are 1500 ms then 3000 ms, one after each failed
\* attempt before the third whose error carries no denial signal and none
\* after the third; attempt k + 1 is sent after k sleeps; a call that
\* returns after two failures returns the parsed body after 4500 ms of sleep.
C9_ExponentialBackoff ==
    /\ delays \in {<<>>, <<1500>>, <<1500, 3000>>}
    /\ Len(delays) =
           Cardinality({k \in 1..Len(errors) : k < 3 /\ ~DenialSignal(errors[k])})
    /\ genPc = "request" => (attempt = Len(delays) + 1 /\ requests = attempt)
    /\ (genPc = "returned" /\ Len(errors) = 2) =>
           /\ SumSeq(delays) = 4500
           /\ genResult.kind = "returned"
           /\ genResult.value \in {"[]", "[{question,answer}]"}

\* C9 witness: two failed attempts, then a body of one pair returned, after
\* sleeps of 1500 and 3000 ms.
C9_Witness ==
    /\ genPc = "returned"
    /\ Len(errors) = 2
    /\ delays = <<1500, 3000>>
    /\ genResult = [kind |-> "returned", value |-> "[{question,answer}]"]

\* C10: when three attempts failed without a denial signal, the message thrown
\* is the rate-limit one exactly when the third error has status 429 or body
\* status RESOURCE_EXHAUSTED, and the generic one otherwise.
C10_FinalErrorDecides ==
    (/\ genPc = "thrown"
     /\ Len(errors) = 3
     /\ \A k \in 1..3 : ~DenialSignal(errors[k])) =>
        /\ genResult.kind = "thrown"
        /\ genResult.value =
               IF \/ errors[3].status = "n:429"
                  \/ errors[3].bodyStatus = "s:RESOURCE_EXHAUSTED"
               THEN MsgRateLimit
               ELSE MsgGeneric

\* C10 witness: the first two attempts failed with rate-limit errors, the
\* third with a plain one, and the generic message was thrown.
C10_Witness ==
    /\ genPc = "thrown"
    /\ Len(errors) = 3
    /\ errors[1].status = "n:429"
    /\ errors[2].bodyStatus = "s:RESOURCE_EXHAUSTED"
    /\ errors[3] = PlainError("Internal error encountered.")
    /\ genResult.value = MsgGeneric

\* The errors an attempt raises itself for a response it cannot use.
UnusableResponseErrors ==
    {PlainError(message) :
        message \in {MsgNoText, MsgParseEnd, MsgParseQuotesKey, MsgParseNoEcho,
                     MsgParseFormat}}

\* C11 (as claimed): a call returns only a body that parsed to an array of
\* objects with question and answer; an attempt whose response is unparseable
\* or of another shape failed like a transient one: before the third attempt
\* a backoff sleep follows it, and at the third the generic message is thrown.
C11_Original ==
    /\ (genResult.kind = "returned" /\ requests > 0) =>
           genResult.value \in {"[]", "[{question,answer}]"}
    /\ \A k \in 1..Len(errors) :
           errors[k] \in UnusableResponseErrors =>
               /\ k < 3 => Len(delays) >= k
               /\ k = 3 => (genPc = "thrown" /\ genResult.value = MsgGeneric)

\* C12: a call with blank text and absent or empty images has returned the
\* empty list with no request made and no sleep awaited.
C12_BlankInputReturnsEmpty ==
    (/\ genPc # "idle"
     /\ genText \in {"", "   "}
     /\ (genImages # "undefined" => Len(genImages) = 0)) =>
        /\ genPc = "returned"
        /\ genResult = [kind |-> "returned", value |-> "[]"]
        /\ requests = 0
        /\ errors = <<>>
        /\ delays = <<>>

\* C12 witness: a call with whitespace-only text and an empty image list has
\* returned.
C12_Witness ==
    /\ genPc = "returned"
    /\ genText = "   "
    /\ genImages = <<>>
    /\ requests = 0
    /\ genResult.value = "[]"

\* ------------------------------------------------- the generation workflow
MsgNoContent == "Could not extract any content from this chunk."
MsgForEach == "images.forEach is not a function"
MsgQuestionTrim == "pair.question.trim is not a function"
MsgAnswerTrim == "pair.answer.trim is not a function"

\* The message of the TypeError the map callback throws at the first pair it
\* cannot trim.
MapThrowMessage(basePairs) ==
    LET i == CHOOSE i \in 1..Len(basePairs) :
                 /\ MapThrows(SubSeq(basePairs, 1, i))
                 /\ ~MapThrows(SubSeq(basePairs, 1, i - 1))
    IN  IF basePairs[i].question.typ = "number" THEN MsgQuestionTrim ELSE MsgAnswerTrim

ChunkErrorMessageNoId(id, message) == "Error: " \o message \o ". Halting process."

\* `Error on chunk #${chunk.id}: ${error.message}. Halting process.`
ChunkErrorMessage(id, message) ==
    "Error on chunk #" \o ToString(id) \o ": " \o message \o ". Halting process."

PACING_MS == 5000

\* The Q&A panel renders its buttons only with a chunk selected.
QaPanelShown == MainUI /\ selectedChunk # NullChunk

\* isLoading of the mounted panel: a panel is unmounted with every file
\* selection, and a new one starts with isLoading false.
IsLoading == sgPc # "idle" /\ sgMount = uploads

GenerateButtonEnabled == QaPanelShown /\ ~IsLoading /\ ~isGeneratingAll

GenerateAllButtonEnabled ==
    QaPanelShown /\ ~IsLoading /\ ~isGeneratingAll /\ Len(chunks) # 0

\* parsedData of a body that passed the format check.
SecondPair == [question |-> StrField(<<"Q", "Q">>), answer |-> StrField(<<"A", "A">>)]

ParsedBody(text) ==
    IF text = "[]" THEN <<>>
    ELSE IF text = TwoPairsText THEN <<SecondPair, PlainPair>>
    ELSE parsedData

\* The generateQuestionsAndAnswers call is over and its locals are gone.
GenForgets ==
    /\ genPc' = "idle"
    /\ genText' = ""
    /\ genImages' = "undefined"
    /\ attempt' = 0
    /\ lastError' = NoError
    /\ requests' = 0
    /\ errors' = <<>>
    /\ delays' = <<>>
    /\ genResult' = NoResult

appVarsButCache == <<file, pdfDoc, pdfArrayBuffer, appError, isParsing, chunks,
                     nextChunkId, selectedChunk, isAutoSplitting, hasOutline,
                     isGeneratingAll, generationProgress>>

\* A chunk of the list is clicked.
SelectChunk(id) ==
    /\ MainUI
    /\ \E i \in 1..Len(chunks) : chunks[i].id = id /\ selectedChunk' = chunks[i]
    /\ asEnded' = NotEnded
    /\ UNCHANGED <<file, pdfDoc, pdfArrayBuffer, appError, isParsing, chunks, nextChunkId,
                   isAutoSplitting, hasOutline, qaCache, isGeneratingAll,
                   generationProgress, ldVars, asVars, genVars, envVars, qaVars>>

\* handleGenerateQA up to the first await inside generateQaForChunk.
HandleGenerateQA ==
    /\ GenerateButtonEnabled
    /\ sgPc' = "extract"
    /\ sgChunk' = selectedChunk
    /\ sgFile' = file
    /\ sgMount' = uploads
    /\ qgError' = [mount |-> uploads, message |-> "null"]
    /\ asEnded' = NotEnded
    /\ UNCHANGED <<appVars, ldVars, asVars, genVars, envVars, baVars, parsedData, saved>>

\* The catch (message # "") and finally blocks of handleGenerateQA; the
\* setters of an unmounted panel change nothing.
SingleEnds(message) ==
    /\ sgPc' = "idle"
    /\ sgChunk' = NullChunk
    /\ sgFile' = "null"
    /\ sgMount' = 0
    /\ qgError' = IF message # "" /\ sgMount = uploads
                  THEN [mount |-> sgMount, message |-> message]
                  ELSE qgError
    /\ asEnded' = NotEnded
    /\ UNCHANGED <<appVarsButCache, ldVars, asVars, envVars, baVars, parsedData, saved>>

\* Both extractions are over with blank text and no PDF.
SingleNoContent ==
    /\ sgPc = "extract"
    /\ SingleEnds(MsgNoContent)
    /\ UNCHANGED <<qaCache, genVars>>

\* Both extractions are over with a base64 string, which
\* generateQuestionsAndAnswers receives as its images.
SingleImagesNotArray ==
    /\ sgPc = "extract"
    /\ SingleEnds(MsgForEach)
    /\ UNCHANGED <<qaCache, genVars>>

ChunkText == "text of the chunk"

\* Both extractions are over with text and no PDF, and
\* generateQuestionsAndAnswers is called and sends its first request.
SingleExtracted ==
    /\ sgPc = "extract"
    /\ sgPc' = "call"
    /\ GenBegin(ChunkText, "undefined")
    /\ asEnded' = NotEnded
    /\ UNCHANGED <<appVars, ldVars, asVars, envVars, sgChunk, sgFile, sgMount,
                   qgError, baVars, parsedData, saved>>

\* generateQuestionsAndAnswers returned: normalization, the cache write and
\* the finally block.
SingleGenerateResolves ==
    /\ sgPc = "call"
    /\ genPc = "returned"
    /\ LET basePairs == ParsedBody(genResult.value)
       IN  IF MapThrows(basePairs)
           THEN SingleEnds(MapThrowMessage(basePairs)) /\ UNCHANGED qaCache
           ELSE /\ qaCache' = CachePut(qaCache, sgChunk.id,
                                       FinalPairs(basePairs, sgChunk, sgFile))
                /\ SingleEnds("")
    /\ GenForgets

SingleGenerateRejects ==
    /\ sgPc = "call"
    /\ genPc = "thrown"
    /\ SingleEnds(genResult.value)
    /\ GenForgets
    /\ UNCHANGED qaCache

\* setGenerationProgress({ current: completed, total: chunks.length })
ProgressStale(completed, total) == [current |-> completed - 1, total |-> total]

ProgressAfter(completed, total) == [current |-> completed, total |-> total]

PacingAlways(completed, total) == TRUE

\* completed < chunks.length
PacingNeeded(completed, total) == completed < total

\* One entry of the log of a run.
Ev(ev, a, b) == [ev |-> ev, a |-> a, b |-> b]

ProgressEv(progress) == Ev("progress", progress.current, progress.total)

BatchChunkFromEnd == baChunks[Len(baChunks) - baCompleted]

\* The chunk at the place of the loop in the list as it is now, if any.
BatchChunkOfLiveList ==
    IF baCompleted + 1 <= Len(chunks) THEN chunks[baCompleted + 1]
    ELSE baChunks[baCompleted + 1]

\* The chunk the loop of handleGenerateAllQa is at.
BatchChunk == baChunks[baCompleted + 1]

batchFrame == <<file, pdfDoc, pdfArrayBuffer, isParsing, chunks, nextChunkId,
                selectedChunk, isAutoSplitting, hasOutline>>

\* handleGenerateAllQa up to the first await inside generateQaForChunk.
HandleGenerateAllQa ==
    /\ GenerateAllButtonEnabled
    /\ IF Len(chunks) = 0
       THEN UNCHANGED <<isGeneratingAll, appError, generationProgress, baVars>>
       ELSE /\ isGeneratingAll' = TRUE
            /\ appError' = "null"
            /\ generationProgress' = [current |-> 0, total |-> Len(chunks)]
            /\ baPc' = "extract"
            /\ baChunks' = chunks
            /\ baFile' = file
            /\ baCompleted' = 0
            /\ baLog' = <<Ev("progress", 0, Len(chunks)), Ev("start", chunks[1].id, 0)>>
    /\ asEnded' = NotEnded
    /\ UNCHANGED <<batchFrame, qaCache, ldVars, asVars, genVars, envVars, sgVars,
                   parsedData, saved>>

\* The catch block of the loop.
BatchChunkFails(message) ==
    /\ appError' = ChunkErrorMessage(BatchChunk.id, message)
    /\ isGeneratingAll' = FALSE
    /\ baPc' = "idle"
    /\ baLog' = Append(baLog, Ev("fail", BatchChunk.id, 0))
    /\ asEnded' = NotEnded
    /\ UNCHANGED <<batchFrame, qaCache, generationProgress, baChunks, baFile,
                   baCompleted, ldVars, asVars, envVars, sgVars, parsedData, saved>>

\* The cache write of generateQaForChunk, then the loop body after the await:
\* the progress report and either the pacing sleep or the end of the run.
BatchChunkSucceeds(finalPairs) ==
    /\ qaCache' = CachePut(qaCache, BatchChunk.id, finalPairs)
    /\ baCompleted' = baCompleted + 1
    /\ generationProgress' = ProgressAfter(baCompleted + 1, Len(baChunks))
    /\ IF PacingNeeded(baCompleted + 1, Len(baChunks))
       THEN /\ baPc' = "pacing"
            /\ baLog' = baLog \o <<Ev("ok", BatchChunk.id, 0),
                                   ProgressEv(ProgressAfter(baCompleted + 1, Len(baChunks))),
                                   Ev("sleep", PACING_MS, 0)>>
            /\ UNCHANGED isGeneratingAll
       ELSE /\ isGeneratingAll' = FALSE
            /\ baPc' = "idle"
            /\ baLog' = baLog \o <<Ev("ok", BatchChunk.id, 0),
                                   ProgressEv(ProgressAfter(baCompleted + 1, Len(baChunks)))>>
    /\ asEnded' = NotEnded
    /\ UNCHANGED <<batchFrame, appError, baChunks, baFile, ldVars, asVars, envVars,
                   sgVars, parsedData, saved>>

\* The pacing sleep ends: the next iteration calls generateQaForChunk.
BatchPacingEnds ==
    /\ baPc = "pacing"
    /\ baPc' = "extract"
    /\ baLog' = Append(baLog, Ev("start", BatchChunk.id, 0))
    /\ asEnded' = NotEnded
    /\ UNCHANGED <<appVars, ldVars, asVars, genVars, envVars, sgVars, baChunks, baFile,
                   baCompleted, parsedData, saved>>

BatchNoContent ==
    /\ baPc = "extract"
    /\ BatchChunkFails(MsgNoContent)
    /\ UNCHANGED genVars

BatchImagesNotArray ==
    /\ baPc = "extract"
    /\ BatchChunkFails(MsgForEach)
    /\ UNCHANGED genVars

BatchExtracted ==
    /\ baPc = "extract"
    /\ baPc' = "call"
    /\ GenBegin(ChunkText, "undefined")
    /\ asEnded' = NotEnded
    /\ UNCHANGED <<appVars, ldVars, asVars, envVars, sgVars, baChunks, baFile,
                   baCompleted, baLog, parsedData, saved>>

BatchGenerateResolves ==
    /\ baPc = "call"
    /\ genPc = "returned"
    /\ LET basePairs == ParsedBody(genResult.value)
       IN  IF MapThrows(basePairs)
           THEN BatchChunkFails(MapThrowMessage(basePairs))
           ELSE BatchChunkSucceeds(FinalPairs(basePairs, BatchChunk, baFile))
    /\ GenForgets

BatchGenerateRejects ==
    /\ baPc = "call"
    /\ genPc = "thrown"
    /\ BatchChunkFails(genResult.value)
    /\ GenForgets

\* --------------------------------------- specification: the normalization
\* All sequences over S of length at most n.
SeqsUpTo(S, n) == UNION {[1..k -> S] : k \in 0..n}

QuestionFields ==
    {NullField, NumberField} \cup {StrField(c) : c \in SeqsUpTo({" ", "?", "Q"}, MaxFieldLen)}

AnswerFields ==
    {NullField, NumberField} \cup {StrField(c) : c \in SeqsUpTo({" ", "A"}, MaxFieldLen)}

RepresentativePairs ==
    {PlainPair,
     [question |-> StrField(<<" ", "Q", "?", " ">>), answer |-> StrField(<<" ", "A", " ">>)],
     [question |-> NullField, answer |-> StrField(<<"A">>)],
     [question |-> StrField(<<"Q">>), answer |-> StrField(<<>>)],
     [question |-> StrField(<<"Q">>), answer |-> StrField(<<" ">>)],
     [question |-> NumberField, answer |-> StrField(<<"A">>)]}

\* The raw pair lists the body "[{question,answer}]" parses to: every single
\* pair that varies one field, and the lists of representative pairs.
RawLists ==
    {<<[question |-> q, answer |-> PlainPair.answer]>> : q \in QuestionFields}
    \cup {<<[question |-> PlainPair.question, answer |-> a]>> : a \in AnswerFields}
    \cup (SeqsUpTo(RepresentativePairs, MaxRawPairs) \ {<<>>})

\* The chunk lists of a document of MaxPages pages after one manual add and
\* after an auto-split with one bookmark.
ChunkLists ==
    {<<[id |-> 1, startPage |-> 1, endPage |-> 1, contextTitle |-> 0]>>,
     SplitResult(<<[title |-> 1, page |-> 1]>>, MaxPages)}

\* A document was loaded and chunked, and no generation was started yet.
InitNorm ==
    /\ file = "pdf"
    /\ pdfDoc = MaxPages
    /\ pdfArrayBuffer = "bytes"
    /\ appError = "null"
    /\ isParsing = FALSE
    /\ chunks \in ChunkLists
    /\ nextChunkId = Len(chunks) + 1
    /\ selectedChunk = chunks[1]
    /\ isAutoSplitting = FALSE
    /\ hasOutline = "true"
    /\ qaCache = EmptyCache
    /\ isGeneratingAll = FALSE
    /\ generationProgress = NoProgress
    /\ ldPc = "idle"
    /\ ldDoc = 0
    /\ asPc = "idle"
    /\ asDoc = 0
    /\ bookmarks = <<>>
    /\ walked = <<>>
    /\ visited = 0
    /\ depth = 0
    /\ entered = FALSE
    /\ formError = ""
    /\ adds = 0
    /\ uploads = 1
    /\ InitGenIdle
    /\ InitQaIdle
    /\ parsedData \in RawLists
    /\ asEnded = NotEnded

\* The environment of this specification: the PDF extraction of the chunk
\* gives nothing and its text is not blank, every request is answered by a
\* body of pairs, and a chunk is generated for once.
NextNorm ==
    \/ \E id \in ChunkIds : sgPc = "idle" /\ id # selectedChunk.id /\ SelectChunk(id)
    \/ selectedChunk.id \notin DOMAIN qaCache /\ HandleGenerateQA
    \/ SingleExtracted
    \/ GenAttemptSucceeds("[{question,answer}]")
    \/ SingleGenerateResolves

SpecNorm == InitNorm /\ [][NextNorm]_vars

\* A step in which generateQaForChunk normalizes what the generator returned
\* and stores the result.
NormalizationStep ==
    /\ sgPc = "call"
    /\ genPc = "returned"
    /\ sgPc' = "idle"
    /\ ~MapThrows(ParsedBody(genResult.value))

\* The question or answer of a raw pair is missing or empty.
MissingOrEmpty(field) ==
    field.typ = "null" \/ (field.typ = "string" /\ Len(field.chars) = 0)

Remaining(pair) == ~MissingOrEmpty(pair.question) /\ ~MissingOrEmpty(pair.answer)

\* C13: the normalization step drops exactly the raw pairs whose question or
\* answer is missing or empty, and stores one QAPair for each remaining raw
\* pair, in the order of the input and with nothing in the place of a
\* dropped pair.
C13_DropsExactlyEmptyPairs ==
    [][NormalizationStep =>
        LET raw == ParsedBody(genResult.value)
            remaining == SelectSeq(raw, Remaining)
            stored == qaCache'[sgChunk.id]
        IN  /\ Len(stored) = Len(remaining)
            /\ \A i \in 1..Len(stored) :
                   /\ stored[i] = FinalPair(remaining[i], sgChunk, sgFile)
                   /\ stored[i].input_text # <<>>]_vars

\* A list whose first pair was dropped and whose later pairs were stored.
C13_Witness ==
    /\ sgPc = "idle"
    /\ Len(parsedData) = MaxRawPairs
    /\ ~Remaining(parsedData[1])
    /\ \E id \in DOMAIN qaCache :
           /\ Len(qaCache[id]) = 2
           /\ qaCache[id][1].output_text = <<"A">>
           /\ qaCache[id][2].input_text[Len(qaCache[id][2].input_text)] = "?"

\* input_text is the context clause of the chunk followed by the question,
\* which ends with its own question mark or else with one appended.
InputTextAsClaimed(qaPair, pair, chunk, f) ==
    LET clause == IF chunk.contextTitle # 0
                  THEN <<"In the section \"", ToString(chunk.contextTitle),
                         "\" of the document \"", FileName(f), "\", ">>
                  ELSE <<"In the document \"", FileName(f), "\", ">>
        trimmed == Trim(pair.question.chars)
        text == qaPair.input_text
        question == SubSeq(text, Len(clause) + 1, Len(text))
    IN  /\ text # <<>>
        /\ text[Len(text)] = "?"
        /\ Len(text) > Len(clause)
        /\ SubSeq(text, 1, Len(clause)) = clause
        /\ IF trimmed # <<>> /\ trimmed[Len(trimmed)] = "?"
           THEN Len(question) = Len(trimmed)
           ELSE Len(question) = Len(trimmed) + 1

NoOuterWhitespace(s) == s = <<>> \/ (s[1] # " " /\ s[Len(s)] # " ")

\* C14: every QAPair stored in the cache has a non-empty input_text that
\* starts with the context clause of its chunk and ends with exactly the
\* question mark of the question, and a non-empty output_text without
\* leading or trailing whitespace.
C14_Original ==
    [][NormalizationStep =>
        LET remaining == SelectSeq(ParsedBody(genResult.value), Remaining)
            stored == qaCache'[sgChunk.id]
        IN  \A i \in 1..Len(stored) :
                /\ InputTextAsClaimed(stored[i], remaining[i], sgChunk, sgFile)
                /\ stored[i].output_text # <<>>
                /\ NoOuterWhitespace(stored[i].output_text)]_vars

\* What holds of the stored pairs: all of the above but the non-empty
\* output_text.
StoredPairsButEmptyAnswers ==
    [][NormalizationStep =>
        LET remaining == SelectSeq(ParsedBody(genResult.value), Remaining)
            stored == qaCache'[sgChunk.id]
        IN  \A i \in 1..Len(stored) :
                /\ InputTextAsClaimed(stored[i], remaining[i], sgChunk, sgFile)
                /\ NoOuterWhitespace(stored[i].output_text)]_vars

\* ------------------------------------------ specification: the generation
\* A request is rejected with an error that is retried.
TransientError == PlainError("Internal error encountered.")

\* What the user types into the manual form: the later page first, so that
\* the list is not in the order of the ids.
BatchAddInputs == {<<2, 2>>, <<1, 1>>}

InitBatch ==
    /\ InitApp
    /\ InitGenIdle
    /\ InitQaIdle
    /\ parsedData = PlainBody
    /\ asEnded = NotEnded

\* The environment of this specification: one document of MaxPages pages
\* without an outline is loaded, the user acts once it is parsed, chunks are
\* added by hand, only batch runs are started, and a request is answered by
\* a body of pairs or rejected with a transient error.
NextBatch ==
    \/ uploads = 0 /\ HandleFileChangePdf
    \/ ReaderOnLoad
    \/ GetDocumentResolves(MaxPages)
    \/ LoadOutlineResolves("null")
    \/ TextCheckDone
    \/ /\ adds < MaxBatchAdds
       /\ ldPc = "idle"
       /\ \E input \in BatchAddInputs : HandleAddChunk(input[1], input[2])
    \/ \E id \in ChunkIds : ldPc = "idle" /\ id # selectedChunk.id /\ SelectChunk(id)
    \/ \E id \in ChunkIds : ldPc = "idle" /\ DeleteChunk(id)
    \/ ldPc = "idle" /\ HandleGenerateAllQa
    \/ BatchNoContent
    \/ BatchImagesNotArray
    \/ BatchExtracted
    \/ BatchGenerateResolves
    \/ BatchGenerateRejects
    \/ BatchPacingEnds
    \/ GenAttemptSucceeds("[{question,answer}]")
    \/ GenRequestRejects(TransientError)
    \/ GenSleepEnds

SpecBatch == InitBatch /\ [][NextBatch]_vars

\* ------------------------------------------------ properties of batch runs
\* The entries of one kind in the log of the current or last run.
Logged(ev) == SelectSeq(baLog, LAMBDA e : e.ev = ev)

LastLogged == baLog[Len(baLog)]

\* The last run ended with the failure of a chunk.
RunFailed == baLog # <<>> /\ LastLogged.ev = "fail"

\* The ids of the first k chunks of the run, as "start" entries.
StartsOfFirst(k) == [i \in 1..k |-> Ev("start", baChunks[i].id, 0)]

\* The messages a failed generateQaForChunk can carry here.
BatchFailureMessages == {MsgNoContent, MsgForEach, FinalMessage(TransientError)}

\* A step in which the catch block of the loop runs.
BatchFailureStep ==
    /\ baPc \in {"extract", "call"}
    /\ baPc' = "idle"
    /\ baCompleted' = baCompleted

\* C15: when chunk k is the first chunk of a run whose generation fails,
\* generation was started for chunks 1..k and for no later chunk, the error
\* message names the id of chunk k, isGeneratingAll is false, and the step
\* of the failure leaves the cache as the earlier chunks of the run wrote it.
C15_HaltsOnFirstFailure ==
    /\ [](RunFailed =>
            LET k == baCompleted + 1
            IN  /\ baPc = "idle"
                /\ ~isGeneratingAll
                /\ Logged("start") = StartsOfFirst(k)
                /\ LastLogged.a = baChunks[k].id
                /\ Len(Logged("fail")) = 1
                /\ \E message \in BatchFailureMessages :
                       appError = "Error on chunk #" \o ToString(baChunks[k].id)
                                  \o ": " \o message \o ". Halting process.")
    /\ [][BatchFailureStep => qaCache' = qaCache]_vars

\* Chunk 2 of 3 failed after three requests, and the entry of chunk 1 is cached.
C15_Witness ==
    /\ RunFailed
    /\ Len(baChunks) = 3
    /\ baCompleted = 1
    /\ baChunks[1].id \in DOMAIN qaCache
    /\ baChunks[3].id \notin DOMAIN qaCache
    /\ appError = "Error on chunk #" \o ToString(baChunks[2].id) \o ": "
                  \o FinalMessage(TransientError) \o ". Halting process."

\* The number of entries of one kind among the first p entries of the log.
LoggedBefore(ev, p) == Len(SelectSeq(SubSeq(baLog, 1, p), LAMBDA e : e.ev = ev))

\* C16: a run starts generation for the chunks of its list in list order and
\* for each chunk at most once, starts a chunk only after every earlier
\* chunk succeeded and none failed, and makes at most three requests for
\* the chunk it is at.
C16_InListOrderOnceEach ==
    /\ Len(Logged("start")) <= Len(baChunks)
    /\ Logged("start") = StartsOfFirst(Len(Logged("start")))
    /\ Logged("ok") = [i \in 1..Len(Logged("ok")) |-> Ev("ok", baChunks[i].id, 0)]
    /\ \A p \in 1..Len(baLog) :
           baLog[p].ev = "start" =>
               /\ LoggedBefore("ok", p) = LoggedBefore("start", p) - 1
               /\ LoggedBefore("fail", p) = 0
    /\ baPc = "call" =>
           /\ requests \in 1..MAX_RETRIES
           /\ Len(Logged("start")) = baCompleted + 1

\* The third chunk of a list that is not in the order of the ids is at its
\* third request.
C16_Witness ==
    /\ baPc = "call"
    /\ Len(baChunks) = 3
    /\ baCompleted = 2
    /\ baChunks[1].id > baChunks[2].id
    /\ requests = MAX_RETRIES
    /\ genPc = "request"

\* C17: the progress reported in a run over n chunks is {0, n} at its start
\* and {j, n} after its j-th successful chunk and nothing else, so current
\* neither decreases nor exceeds total, and the progress shown when chunk k
\* has failed is {k - 1, n}.
C17_ProgressCountsSuccesses ==
    baLog # <<>> =>
        /\ Logged("progress") =
               [j \in 1..(baCompleted + 1) |-> Ev("progress", j - 1, Len(baChunks))]
        /\ baLog[1] = Ev("progress", 0, Len(baChunks))
        /\ generationProgress = [current |-> baCompleted, total |-> Len(baChunks)]
        /\ generationProgress.current <= generationProgress.total
        /\ Len(Logged("ok")) = baCompleted
        /\ \A p \in 1..Len(baLog) :
               baLog[p].ev = "ok" =>
                   baLog[p + 1] = Ev("progress", LoggedBefore("ok", p), Len(baChunks))

\* Chunk 2 of 3 has failed and the progress shown is {1, 3}.
C17_Witness ==
    /\ RunFailed
    /\ Len(baChunks) = 3
    /\ LastLogged.a = baChunks[2].id
    /\ generationProgress = [current |-> 1, total |-> 3]

\* C18: in a run a wait of 5000 ms lies between the success of each chunk
\* but the last and the start of the next chunk; no wait follows the last
\* chunk and none follows a failed chunk.
C18_PacingBetweenChunks ==
    /\ \A p \in 1..Len(baLog) :
           /\ baLog[p].ev = "start" /\ p > 2 => baLog[p - 1] = Ev("sleep", 5000, 0)
           /\ baLog[p].ev = "sleep" =>
                  /\ baLog[p] = Ev("sleep", 5000, 0)
                  /\ baLog[p - 2].ev = "ok"
                  /\ LoggedBefore("ok", p) < Len(baChunks)
           /\ baLog[p].ev = "ok" =>
                  IF LoggedBefore("ok", p) < Len(baChunks)
                  THEN baLog[p + 2] = Ev("sleep", 5000, 0)
                  ELSE Len(baLog) = p + 1 /\ baPc = "idle"
           /\ baLog[p].ev = "fail" => Len(baLog) = p /\ baPc = "idle"
    /\ baPc = "pacing" <=> (baLog # <<>> /\ LastLogged.ev = "sleep")

\* A run over 3 chunks is over: it waited twice.
C18_Witness ==
    /\ baPc = "idle"
    /\ Len(baChunks) = 3
    /\ Len(Logged("ok")) = 3
    /\ Len(Logged("sleep")) = 2
    /\ LastLogged = Ev("progress", 3, 3)

\* ----------------------------- specification: generation and another file
\* The environment of this specification: documents of MaxPages pages
\* without an outline are selected, also while a generation is pending; the
\* user adds the chunk of page 1 and clicks the enabled buttons once a
\* document is parsed; the extraction of an activity ends while no other
\* activity is in generateQuestionsAndAnswers; every request is answered by
\* a body of pairs.
NextConc ==
    \/ uploads < MaxConcUploads /\ ldPc = "idle" /\ HandleFileChangePdf
    \/ ReaderOnLoad
    \/ GetDocumentResolves(MaxPages)
    \/ LoadOutlineResolves("null")
    \/ TextCheckDone
    \/ adds < MaxConcAdds /\ ldPc = "idle" /\ HandleAddChunk(1, 1)
    \/ ldPc = "idle" /\ HandleGenerateQA
    \/ genPc = "idle" /\ SingleExtracted
    \/ SingleGenerateResolves
    \/ ldPc = "idle" /\ HandleGenerateAllQa
    \/ genPc = "idle" /\ BatchExtracted
    \/ BatchGenerateResolves
    \/ BatchPacingEnds
    \/ GenAttemptSucceeds("[{question,answer}]")

SpecConc == InitBatch /\ [][NextConc]_vars

\* C19: at most one generation activity, a single-chunk generation started
\* from the Generate button or a batch run, is in flight in every reachable
\* state, whatever the user does while asynchronous steps are pending.
C19_Original == ~(sgPc # "idle" /\ baPc # "idle")

\* What the buttons do ensure: no activity starts while the mounted panel
\* shows one in flight.
StartsOnlyWhenShownIdle ==
    [][(sgPc = "idle" /\ sgPc' # "idle") \/ (baPc = "idle" /\ baPc' # "idle")
        => ~IsLoading /\ ~isGeneratingAll]_vars

\* A generation started for a chunk of an earlier document has written its
\* result into the cache of the document loaded since.
StaleCacheWrite ==
    /\ sgPc = "idle"
    /\ uploads = 2
    /\ ldPc = "idle"
    /\ chunks = <<>>
    /\ 1 \in DOMAIN qaCache

\* ------------------------------------------- specification: the QA cache
\* A request is rejected with an error that is not retried.
DeniedError ==
    [status |-> "s:PERMISSION_DENIED", code |-> "n:403", bodyStatus |-> "undefined",
     message |-> "undefined"]

\* The environment of this specification: one document of MaxPages pages
\* without an outline is loaded, the user acts once it is parsed, every
\* chunk added is page 1, chunks are generated one by one and in batch
\* runs, the PDF extraction of a chunk gives a string or nothing, and a
\* request is answered by a body of pairs or of no pairs or is rejected
\* for good.
NextCache ==
    \/ uploads = 0 /\ HandleFileChangePdf
    \/ ReaderOnLoad
    \/ GetDocumentResolves(MaxPages)
    \/ LoadOutlineResolves("null")
    \/ TextCheckDone
    \/ /\ adds < MaxCacheAdds
       /\ ldPc = "idle"
       /\ HandleAddChunk(1, 1)
    \/ \E id \in ChunkIds : ldPc = "idle" /\ id # selectedChunk.id /\ SelectChunk(id)
    \/ \E id \in ChunkIds : ldPc = "idle" /\ DeleteChunk(id)
    \/ ldPc = "idle" /\ HandleGenerateQA
    \/ SingleImagesNotArray
    \/ SingleExtracted
    \/ SingleGenerateResolves
    \/ SingleGenerateRejects
    \/ ldPc = "idle" /\ HandleGenerateAllQa
    \/ BatchImagesNotArray
    \/ BatchExtracted
    \/ BatchGenerateResolves
    \/ BatchGenerateRejects
    \/ BatchPacingEnds
    \/ \E text \in {"[]", "[{question,answer}]"} : GenAttemptSucceeds(text)
    \/ GenRequestRejects(DeniedError)

SpecCache == InitBatch /\ [][NextCache]_vars

\* The cache entries of the ids other than id are what they were.
OthersKept(id) ==
    /\ (DOMAIN qaCache') \ {id} = (DOMAIN qaCache) \ {id}
    /\ \A k \in (DOMAIN qaCache) \ {id} : qaCache'[k] = qaCache[k]

\* The steps in which a generateQaForChunk succeeds for a chunk and fails.
SingleSuccessStep == sgPc = "call" /\ sgPc' = "idle" /\ genPc = "returned"
BatchSuccessStep == baPc = "call" /\ baCompleted' = baCompleted + 1
SingleFailureStep == sgPc # "idle" /\ sgPc' = "idle" /\ genPc # "returned"

\* A step in which a chunk leaves the list.
DeleteStep == Len(chunks') < Len(chunks)

\* C20: a successful generateQaForChunk for chunk c creates or replaces the
\* cache entry of c and leaves the other entries alone; deleteChunk(c)
\* removes chunk c and the entry of c and leaves every other chunk and
\* entry alone; a failed generation changes no entry; nothing else changes
\* the cache.
C20_CacheFrame ==
    [][/\ SingleSuccessStep =>
              /\ sgChunk.id \in DOMAIN qaCache'
              /\ qaCache'[sgChunk.id] \in {<<>>, <<FinalPair(PlainPair, sgChunk, sgFile)>>}
              /\ genResult.value = "[]" <=> qaCache'[sgChunk.id] = <<>>
              /\ OthersKept(sgChunk.id)
       /\ BatchSuccessStep =>
              /\ BatchChunk.id \in DOMAIN qaCache'
              /\ qaCache'[BatchChunk.id] \in {<<>>, <<FinalPair(PlainPair, BatchChunk, baFile)>>}
              /\ genResult.value = "[]" <=> qaCache'[BatchChunk.id] = <<>>
              /\ OthersKept(BatchChunk.id)
       /\ DeleteStep =>
              \E c \in ChunkIds :
                  /\ chunks' = SelectSeq(chunks, LAMBDA chunk : chunk.id # c)
                  /\ c \notin DOMAIN qaCache'
                  /\ OthersKept(c)
       /\ SingleFailureStep \/ BatchFailureStep => qaCache' = qaCache
       /\ qaCache' # qaCache => SingleSuccessStep \/ BatchSuccessStep \/ DeleteStep]_vars

\* Both chunks of a run were generated; the first is still listed and its
\* entry is the empty list, the second was deleted with its entry.
C20_Witness ==
    /\ baPc = "idle"
    /\ sgPc = "idle"
    /\ Len(Logged("ok")) = 2
    /\ Len(chunks) = 1
    /\ chunks[1].id = baChunks[1].id
    /\ baChunks[2].id \notin DOMAIN qaCache
    /\ baChunks[1].id \in DOMAIN qaCache
    /\ qaCache[baChunks[1].id] = <<>>

\* --------------------------------------------------------- handleSaveAllQa
MsgNothingToSave == "No Q&A pairs have been generated to save."

\* The keys of the cache object in the order Object.values visits them:
\* integer keys ascending.
RECURSIVE Ascending(_)
Ascending(S) ==
    IF S = {} THEN <<>>
    ELSE LET least == CHOOSE x \in S : \A y \in S : x <= y
         IN  <<least>> \o Ascending(S \ {least})

\* Object.values(qaCache)
ObjectValues(cache) ==
    [i \in 1..Cardinality(DOMAIN cache) |-> cache[Ascending(DOMAIN cache)[i]]]

\* Array.prototype.flat
RECURSIVE Flat(_)
Flat(lists) == IF lists = <<>> THEN <<>> ELSE Head(lists) \o Flat(Tail(lists))

JsonLineSwapped(pair) ==
    <<[role |-> "user", content |-> pair.output_text],
      [role |-> "model", content |-> pair.input_text]>>

\* The messages of the object JSON.stringify writes on one line.
JsonLine(pair) ==
    <<[role |-> "user", content |-> pair.input_text],
      [role |-> "model", content |-> pair.output_text]>>

\* allPairs.map(...), the lines that join('\n') separates.
JsonLines(allPairs) == [i \in 1..Len(allPairs) |-> JsonLine(allPairs[i])]

\* The Save All button of the panel can be clicked.
SaveButtonEnabled == QaPanelShown /\ DOMAIN qaCache # {} /\ ~isGeneratingAll

HandleSaveAllQa ==
    /\ SaveButtonEnabled
    /\ LET allPairs == Flat(ObjectValues(qaCache))
       IN  IF Len(allPairs) = 0
           THEN /\ appError' = MsgNothingToSave
                /\ saved' = [saved EXCEPT !.calls = @ + 1]
           ELSE /\ saved' = [calls |-> saved.calls + 1, files |-> saved.files + 1,
                             lines |-> JsonLines(allPairs)]
                /\ UNCHANGED appError
    /\ asEnded' = NotEnded
    /\ UNCHANGED <<file, pdfDoc, pdfArrayBuffer, isParsing, chunks, nextChunkId,
                   selectedChunk, isAutoSplitting, hasOutline, qaCache, isGeneratingAll,
                   generationProgress, ldVars, asVars, genVars, envVars, sgVars, baVars,
                   parsedData>>

\* ------------------------------------------- specification: the export
\* The environment of this specification: one document of MaxPages pages
\* without an outline is loaded, the user acts once it is parsed, chunks are
\* added by hand, the later page first, deleted and generated one by one
\* while selected, the PDF extraction of a chunk gives nothing, and a request is
\* answered by a body of one pair, of two pairs or of none.
NextSave ==
    \/ uploads = 0 /\ HandleFileChangePdf
    \/ ReaderOnLoad
    \/ GetDocumentResolves(MaxPages)
    \/ LoadOutlineResolves("null")
    \/ TextCheckDone
    \/ /\ adds < MaxSaveAdds
       /\ ldPc = "idle"
       /\ \E input \in BatchAddInputs : HandleAddChunk(input[1], input[2])
    \/ \E id \in ChunkIds : ldPc = "idle" /\ DeleteChunk(id)
    \/ ldPc = "idle" /\ HandleGenerateQA
    \/ SingleExtracted
    \/ SingleGenerateResolves
    \/ \E text \in {"[]", "[{question,answer}]", TwoPairsText} : GenAttemptSucceeds(text)
    \/ saved.calls < MaxSaves /\ HandleSaveAllQa

SpecSave == InitBatch /\ [][NextSave]_vars

\* A step of handleSaveAllQa.
SaveStep == saved'.calls = saved.calls + 1

\* The cached pairs of the listed chunks, chunk by chunk in list order.
RECURSIVE PairsInListOrder(_)
PairsInListOrder(list) ==
    IF list = <<>> THEN <<>>
    ELSE (IF Head(list).id \in DOMAIN qaCache THEN qaCache[Head(list).id] ELSE <<>>)
         \o PairsInListOrder(Tail(list))

\* C21: the file handleSaveAllQa writes holds the cached pairs grouped by
\* chunk in the order of the chunk list and, within a chunk, in the order
\* they were generated (stated where every cache entry is that of a listed
\* chunk).
C21_Original ==
    [][SaveStep /\ saved'.files # saved.files /\ DOMAIN qaCache \subseteq ChunkIds =>
           LET expected == PairsInListOrder(chunks)
           IN  /\ Len(saved'.lines) = Len(expected)
               /\ \A i \in 1..Len(expected) :
                      saved'.lines[i][1].content = expected[i].input_text]_vars

\* What the file does hold: the pairs grouped by chunk in ascending order
\* of the chunk ids, in generation order within a chunk.
SavedInIdOrder ==
    [][SaveStep /\ saved'.files # saved.files =>
           LET ids == Ascending(DOMAIN qaCache)
               expected == Flat([i \in 1..Len(ids) |-> qaCache[ids[i]]])
           IN  /\ Len(saved'.lines) = Len(expected)
               /\ \A i \in 1..Len(expected) :
                      saved'.lines[i][1].content = expected[i].input_text]_vars

\* The places of the cached pairs: the id of an entry and an index into it.
PairPlaces ==
    UNION {{<<id, i>> : i \in 1..Len(qaCache[id])} : id \in DOMAIN qaCache}

\* C22: handleSaveAllQa writes one line per cached pair, the line of a pair
\* carrying its input_text as the user message and its output_text as the
\* model message; with no pair in the cache it writes no file and sets an
\* error message.
C22_OneLinePerPair ==
    [][SaveStep =>
           IF PairPlaces = {}
           THEN /\ saved'.files = saved.files
                /\ saved'.lines = saved.lines
                /\ appError' = "No Q&A pairs have been generated to save."
           ELSE /\ saved'.files = saved.files + 1
                /\ Len(saved'.lines) = Cardinality(PairPlaces)
                /\ appError' = appError
                /\ \A pl \in PairPlaces :
                       LET pair == qaCache[pl[1]][pl[2]]
                           line == <<[role |-> "user", content |-> pair.input_text],
                                     [role |-> "model", content |-> pair.output_text]>>
                       IN  Cardinality({i \in 1..Len(saved'.lines) : saved'.lines[i] = line})
                           = Cardinality({q \in PairPlaces : qaCache[q[1]][q[2]] = pair})]_vars

\* A first click found entries without pairs; a later one wrote three lines.
C22_Witness ==
    /\ saved.calls = 2
    /\ saved.files = 1
    /\ Len(saved.lines) = 3
    /\ appError = "No Q&A pairs have been generated to save."

\* ------------------------------ specification: chunking and another file
\* The page counts of the documents selected here.
ReloadPageCounts == {2, MaxPages}

\* The outline items walked here: explicit destinations at the first and at
\* the last page of the document, and one that does not resolve.
ReloadItems(numPages) ==
    {item \in OutlineItems(numPages) :
         /\ item.dest = "array"
         /\ item.pageIndex \in {-1, 0, numPages - 1}}

\* The environment of this specification: documents with an outline and
\* files that are no PDF, cannot be read or cannot be parsed are selected,
\* also while a split is pending; outlines are walked as flat
\* lists; the user adds and deletes chunks and starts splits whenever the
\* chunk manager is shown.
NextReload ==
    \/ uploads < MaxConcUploads /\ ldPc = "idle" /\ HandleFileChangePdf
    \/ uploads < MaxConcUploads /\ ldPc = "idle" /\ HandleFileChangeOther
    \/ ReaderOnError
    \/ ReaderOnLoad
    \/ \E numPages \in ReloadPageCounts : GetDocumentResolves(numPages)
    \/ GetDocumentRejects
    \/ LoadOutlineResolves("items")
    \/ TextCheckDone
    \/ adds < MaxConcAdds /\ HandleAddChunk(1, 1)
    \/ \E id \in ChunkIds : DeleteChunk(id)
    \/ AutoSplitStart
    \/ AutoSplitOutlineRejects
    \/ AutoSplitOutlineArray
    \/ /\ visited < MaxItems
       /\ \E item \in ReloadItems(asDoc) : ProcessOutlineItem(item, FALSE)
    \/ AutoSplitNoBookmarks
    \/ AutoSplitSucceeds

SpecReload == InitBatch /\ [][NextReload]_vars

\* C23: while a document is loaded, every chunk of the list lies within it:
\* 1 <= startPage <= endPage <= pageCount of the loaded document.
C23_Original ==
    pdfDoc # 0 =>
        \A i \in 1..Len(chunks) :
            /\ 1 <= chunks[i].startPage
            /\ chunks[i].startPage <= chunks[i].endPage
            /\ chunks[i].endPage <= pdfDoc

\* What does hold: every chunk has 1 <= startPage <= endPage.
ChunksWellFormed ==
    \A i \in 1..Len(chunks) :
        1 <= chunks[i].startPage /\ chunks[i].startPage <= chunks[i].endPage

\* C29: the ids of the chunks of the list are pairwise distinct and
\* nextChunkId is greater than each of them.
C29_IdsDistinctBelowNext ==
    /\ \A i, j \in 1..Len(chunks) : i # j => chunks[i].id # chunks[j].id
    /\ \A i \in 1..Len(chunks) : chunks[i].id < nextChunkId

\* A chunk was added by hand to the chunks of a split while another split
\* is pending.
C29_Witness ==
    /\ asPc = "walk"
    /\ \E i, j \in 1..Len(chunks) :
           /\ chunks[i].contextTitle # 0
           /\ chunks[j].contextTitle = 0
           /\ chunks[j].id > chunks[i].id
           /\ nextChunkId = chunks[j].id + 1

\* The steps in which handleFileChange or its reader callbacks finish with
\* a file that is no PDF, that cannot be read, and that fails to parse.
NotPdfStep == uploads' = uploads + 1 /\ file' = "null"
ReadFailedStep == ldPc = "reading" /\ ldPc' = "idle" /\ uploads' = uploads
ParseFailedStep ==
    ldPc \in {"getDocument", "getOutline"} /\ ldPc' = "idle" /\ file' = "null"

\* C24: when the selected file is no PDF, cannot be read or fails to parse,
\* an error message is shown once the handler has finished, and the
\* document, the chunk list, the id counter and the cache are reset.
C24_Original ==
    [][NotPdfStep \/ ReadFailedStep \/ ParseFailedStep =>
           /\ appError' # "null"
           /\ pdfDoc' = 0
           /\ chunks' = <<>>
           /\ nextChunkId' = 1
           /\ qaCache' = EmptyCache]_vars

\* What holds of the three cases one by one.
FileErrorsAsCoded ==
    [][/\ NotPdfStep =>
              /\ appError' = MsgInvalidFile
              /\ pdfDoc' = 0
              /\ UNCHANGED <<chunks, nextChunkId, qaCache>>
       /\ ReadFailedStep =>
              /\ appError' = MsgReadFailed
              /\ pdfDoc' = 0
              /\ UNCHANGED <<chunks, nextChunkId, qaCache>>
       /\ ParseFailedStep =>
              /\ appError' = "null"
              /\ pdfDoc' = 0 /\ chunks' = <<>> /\ nextChunkId' = 1 /\ qaCache' = EmptyCache]_vars

\* A file that is no PDF was selected, and the chunks of the document shown
\* before are still in the list.
NotPdfKeepsChunks == file = "null" /\ appError = MsgInvalidFile /\ chunks # <<>>

\* A file failed to parse and no error message is shown.
ParseFailureShowsNoError ==
    /\ uploads > 0 /\ file = "null" /\ ldPc = "idle" /\ ~isParsing /\ appError = "null"

\* ------------------------------------------- specification: outline walk
WalkPageCount == 2

\* The environment of this specification: one document of WalkPageCount
\* pages is loaded and split; its outline is a tree, every item of which
\* may have children, and an item that has children is followed by the
\* first of them.
NextWalk ==
    \/ uploads = 0 /\ HandleFileChangePdf
    \/ ReaderOnLoad
    \/ GetDocumentResolves(WalkPageCount)
    \/ LoadOutlineResolves("items")
    \/ TextCheckDone
    \/ visited = 0 /\ AutoSplitStart
    \/ AutoSplitOutlineArray
    \/ \E item \in OutlineItems(asDoc), hasItems \in BOOLEAN :
           /\ visited + (IF hasItems THEN 1 ELSE 0) < MaxItems
           /\ ProcessOutlineItem(item, hasItems)
    \/ ProcessOutlineReturns
    \/ AutoSplitNoBookmarks
    \/ AutoSplitSucceeds

SpecWalk == InitSplit /\ [][NextWalk]_vars

\* The bookmarks a walk has to record: one for every item walked whose page
\* index was resolved, titled by the item and on the page after the index.
RECURSIVE Recorded(_, _)
Recorded(items, first) ==
    IF items = <<>> THEN <<>>
    ELSE (IF Head(items).pageIndex >= 0
          THEN <<[title |-> first, page |-> Head(items).pageIndex + 1]>>
          ELSE <<>>)
         \o Recorded(Tail(items), first + 1)

Resolved(items) == {i \in 1..Len(items) : items[i].pageIndex >= 0}

\* C25: the outline walk skips an item whose destination cannot be resolved
\* and goes on: the children of every item, also of a skipped one, and its
\* later siblings are walked, every item walked that resolves is recorded,
\* and the split ends with chunks whenever one item resolved (with the "no
\* structure" error only when none did).
C25_WalkSkipsAndGoesOn ==
    /\ asPc = "walk" =>
           /\ bookmarks = Recorded(walked, 1)
           /\ walked # <<>> =>
                  LET last == walked[Len(walked)]
                  IN  /\ entered = last.hasItems
                      /\ last.hasItems => depth = last.depth + 1
                      /\ ~last.hasItems => depth \in 1..last.depth
    /\ asEnded.how \in {"chunks", "noBookmarks"} =>
           /\ asEnded.bookmarks = Recorded(asEnded.walked, 1)
           /\ asEnded.how = "chunks" <=> Resolved(asEnded.walked) # {}
           /\ asEnded.how = "chunks" => appError = "null" /\ chunks # <<>>
           /\ asEnded.how = "noBookmarks" => appError = MsgNoStructure /\ chunks = <<>>

\* C25 witness: a split ended with chunks whose walk skipped its first item,
\* then recorded a child of that item and after it a sibling of the item.
C25_Witness ==
    /\ asEnded.how = "chunks"
    /\ Len(asEnded.walked) = 3
    /\ asEnded.walked[1] = [depth |-> 1, hasItems |-> TRUE, pageIndex |-> -1]
    /\ asEnded.walked[2].depth = 2 /\ asEnded.walked[2].pageIndex >= 0
    /\ asEnded.walked[3].depth = 1 /\ asEnded.walked[3].pageIndex >= 0
    /\ Len(asEnded.bookmarks) = 2

\* The sections the split that just ended cut into chunks, and the places in
\* the chunk list of the chunks titled by a section.
SectionsOfSplit == InitialChunks(UniqueBookmarks(asEnded.bookmarks), asEnded.numPages)
PartsOf(section) == {i \in 1..Len(chunks) : chunks[i].contextTitle = section.contextTitle}

\* C26: a split cuts every section greedily from the left: the chunks of a
\* section are adjacent in the list and carry its bookmark's title, they are
\* consecutive and cover the section exactly, and each but possibly the last
\* spans exactly 4 pages.
C26_SectionsCutGreedily ==
    asEnded.how = "chunks" =>
        /\ \A i \in 1..Len(chunks) :
               \E k \in 1..Len(SectionsOfSplit) : i \in PartsOf(SectionsOfSplit[k])
        /\ \A k \in 1..Len(SectionsOfSplit) :
               LET section == SectionsOfSplit[k]
                   parts == PartsOf(section)
               IN  /\ parts # {}
                   /\ \E lo, hi \in 1..Len(chunks) :
                          /\ parts = lo..hi
                          /\ chunks[lo].startPage = section.startPage
                          /\ chunks[hi].endPage = section.endPage
                          /\ Span(chunks[hi]) \in 1..4
                          /\ \A i \in lo..(hi - 1) :
                                 /\ Span(chunks[i]) = 4
                                 /\ chunks[i + 1].startPage = chunks[i].endPage + 1

\* C26 witness: a split of one section longer than 4 pages, cut into a
\* 4-page chunk and the remainder, both titled by the section's bookmark.
C26_Witness ==
    /\ asEnded.how = "chunks"
    /\ Len(SectionsOfSplit) = 1
    /\ Span(SectionsOfSplit[1]) > 4
    /\ Len(chunks) = 2
    /\ Span(chunks[1]) = 4
    /\ chunks[2].startPage = chunks[1].endPage + 1
    /\ chunks[2].endPage = SectionsOfSplit[1].endPage
    /\ chunks[1].contextTitle = SectionsOfSplit[1].contextTitle
    /\ chunks[2].contextTitle = SectionsOfSplit[1].contextTitle

\* The step in which the extractions of a single generation are over, the
\* panel that started it still being mounted, and the outcome of the step:
\* the "no content" error.
ExtractionsOverStep == sgPc = "extract" /\ sgPc' # "extract" /\ sgMount = uploads
NoContentOutcome == sgPc' = "idle" /\ qgError'.message = MsgNoContent

\* C27: once the extractions gave non-blank text or the pages of the chunk,
\* generateQaForChunk sends at least one request, carrying the text and the
\* extracted content as a list of images, before any error is raised.
C27_Original ==
    [][ExtractionsOverStep /\ ~NoContentOutcome =>
           /\ sgPc' = "call"
           /\ requests' >= 1
           /\ genText' = ChunkText
           /\ genImages' # "undefined"]_vars

\* What holds: a request is sent exactly when no error is raised at once,
\* and it carries the text and no images.
RequestsCarryTextOnly ==
    [][ExtractionsOverStep =>
           \/ NoContentOutcome /\ requests' = 0
           \/ sgPc' = "idle" /\ qgError'.message = MsgForEach /\ requests' = 0
           \/ sgPc' = "call" /\ requests' = 1 /\ genText' = ChunkText
                  /\ genImages' = "undefined"]_vars

\* The pages of the chunk were extracted and the generation ended without a
\* request.
PagesExtractedNoRequest ==
    sgPc = "idle" /\ qgError.message = MsgForEach /\ qgError.mount = uploads /\ requests = 0

\* C28: every key of the cache is the id of a chunk of the list.
C28_Original == DOMAIN qaCache \subseteq ChunkIds

\* The chunks were deleted while a generation for one of them was pending,
\* and the pairs it produced are cached under the id of no chunk.
DeletedChunkCached ==
    /\ sgPc = "idle" /\ baPc = "idle"
    /\ chunks = <<>>
    /\ DOMAIN qaCache # {}

\* ------------------------------ specification: a run and the chunk list
MaxRunAdds == 1

\* The environment of this specification: one document of MaxPages pages
\* with an outline is loaded and split by the outline; one batch run is
\* started, and while it is going on the user adds and deletes chunks and
\* splits again, which replaces the list or, when no bookmark resolves,
\* empties it; every chunk of the run succeeds.
NextRun ==
    \/ uploads = 0 /\ HandleFileChangePdf
    \/ ReaderOnLoad
    \/ GetDocumentResolves(MaxPages)
    \/ LoadOutlineResolves("items")
    \/ TextCheckDone
    \/ /\ adds < MaxRunAdds
       /\ baPc # "idle"
       /\ HandleAddChunk(1, 1)
    \/ \E id \in ChunkIds : baPc # "idle" /\ DeleteChunk(id)
    \/ ldPc = "idle" /\ baLog = <<>> /\ HandleGenerateAllQa
    \/ BatchExtracted
    \/ BatchGenerateResolves
    \/ BatchPacingEnds
    \/ GenAttemptSucceeds("[{question,answer}]")
    \/ ldPc = "idle" /\ AutoSplitStart
    \/ AutoSplitOutlineArray
    \/ /\ visited < MaxItems
       /\ \E item \in ReloadItems(asDoc) : ProcessOutlineItem(item, FALSE)
    \/ AutoSplitNoBookmarks
    \/ AutoSplitSucceeds

SpecRun == InitBatch /\ [][NextRun]_vars

\* The steps in which a run starts, and in which its loop caches the pairs
\* of a chunk.
RunStartStep == baPc = "idle" /\ baPc' # "idle"
RunCacheStep == baPc = "call" /\ baCompleted' = baCompleted + 1

\* C30: a run goes through the chunk list as it was when the run started:
\* the list of the run and the total reported stay what they were at the
\* start whatever is added to, deleted from or put in place of the chunk
\* list meanwhile, and the run starts and caches the chunks of that list in
\* their order.
C30_RunKeepsStartingList ==
    [][/\ RunStartStep =>
              /\ baChunks' = chunks
              /\ generationProgress' = [current |-> 0, total |-> Len(chunks)]
              /\ baLog'[Len(baLog')] = Ev("start", chunks[1].id, 0)
       /\ baPc # "idle" =>
              /\ baChunks' = baChunks
              /\ generationProgress'.total = Len(baChunks)
              /\ baLog' # baLog /\ baLog'[Len(baLog')].ev = "start" =>
                     baLog'[Len(baLog')].a = baChunks[baCompleted + 1].id
       /\ RunCacheStep =>
              /\ baChunks[baCompleted + 1].id \in DOMAIN qaCache'
              /\ \A id \in DOMAIN qaCache' :
                     id # baChunks[baCompleted + 1].id =>
                         id \in DOMAIN qaCache /\ qaCache'[id] = qaCache[id]]_vars

\* C30 witness: a run over two chunks has ended with both done and a total
\* of two, the list having been replaced by a split into other chunks after
\* the first chunk was done and before the second was.
C30_Witness ==
    /\ baPc = "idle"
    /\ Len(baChunks) = 2
    /\ baCompleted = 2
    /\ generationProgress = [current |-> 2, total |-> 2]
    /\ asEnded.how = "none"
    /\ Len(chunks) = 1
    /\ chunks[1].contextTitle # 0
    /\ baChunks[2].id \in DOMAIN qaCache
    /\ baChunks[2].id \notin ChunkIds

\* C32: bookmarks being sorted and deduplicated by page before the sections
\* are built, the startPage <= endPage guard drops no section: there are as
\* many sections as distinct bookmark pages, the i-th section starts at the
\* i-th smallest of these pages, and the chunk list has a chunk starting
\* at every bookmark page.
C32_NoSectionDropped ==
    asEnded.how = "chunks" =>
        /\ BookmarkPages \subseteq 1..asEnded.numPages
        /\ Len(SectionsOfSplit) = Cardinality(BookmarkPages)
        /\ \A k \in 1..Len(SectionsOfSplit) :
               /\ SectionsOfSplit[k].startPage \in BookmarkPages
               /\ Cardinality({p \in BookmarkPages : p < SectionsOfSplit[k].startPage})
                      = k - 1
               /\ SectionsOfSplit[k].startPage <= SectionsOfSplit[k].endPage
        /\ \A p \in BookmarkPages : \E i \in 1..Len(chunks) : chunks[i].startPage = p

\* C32 witness: a split over three bookmarks, two of them on one page and
\* the third on the page right after it, that gave two sections, the first
\* of a single page.
C32_Witness ==
    /\ asEnded.how = "chunks"
    /\ Len(asEnded.bookmarks) = 3
    /\ Cardinality(BookmarkPages) = 2
    /\ \E p \in BookmarkPages : BookmarkPages = {p, p + 1}
    /\ Len(SectionsOfSplit) = 2
    /\ Span(SectionsOfSplit[1]) = 1

\* ------------------------------------------ specification: the manual form
MaxFormAdds == 2

\* What parseInt gives for the two fields of the form: 0 for NaN and for
\* values that are not positive, and pages up to one beyond the document.
FormInputs == (0 .. (MaxPages + 1)) \X (0 .. (MaxPages + 1))

\* The environment of this specification: one document of MaxPages pages
\* without an outline is loaded; the user submits the form with any pair of
\* inputs, deletes chunks, and generates once for the selected chunk.
NextForm ==
    \/ uploads = 0 /\ HandleFileChangePdf
    \/ ReaderOnLoad
    \/ GetDocumentResolves(MaxPages)
    \/ LoadOutlineResolves("null")
    \/ TextCheckDone
    \/ /\ adds < MaxFormAdds
       /\ ldPc = "idle"
       /\ sgPc = "idle"
       /\ \E input \in FormInputs : HandleAddChunk(input[1], input[2])
    \/ \E id \in ChunkIds : ldPc = "idle" /\ sgPc = "idle" /\ DeleteChunk(id)
    \/ ldPc = "idle" /\ DOMAIN qaCache = {} /\ HandleGenerateQA
    \/ SingleExtracted
    \/ GenAttemptSucceeds("[{question,answer}]")
    \/ SingleGenerateResolves

SpecForm == InitBatch /\ [][NextForm]_vars

AddStep == adds' = adds + 1

AddErrors ==
    {"Page numbers must be greater than 0.",
     "Start page cannot be greater than end page.",
     "Page number cannot be greater than numPages.",
     "Chunk cannot exceed 4 pages."}

OrderedByStart(list) ==
    \A i, j \in 1..Len(list) : i < j => list[i].startPage <= list[j].startPage

Without(list, i) == SubSeq(list, 1, i - 1) \o SubSeq(list, i + 1, Len(list))

\* C33: a submission of the form either sets an error and leaves the chunk
\* list, the id counter, the selection and the cache as they were, or
\* inserts exactly one chunk, within 1..numPages, of at most 4 pages, with
\* the previous nextChunkId as id and no contextTitle, selects it, steps
\* the counter, and leaves the list ordered by startPage.
C33_AddValidatesAndInserts ==
    [][AddStep =>
           IF formError' # ""
           THEN /\ formError' \in AddErrors
                /\ UNCHANGED <<chunks, nextChunkId, selectedChunk, qaCache>>
           ELSE /\ \E i \in 1..Len(chunks') :
                       /\ chunks'[i].id = nextChunkId
                       /\ chunks'[i].contextTitle = 0
                       /\ 1 <= chunks'[i].startPage
                       /\ chunks'[i].startPage <= chunks'[i].endPage
                       /\ chunks'[i].endPage <= pdfDoc
                       /\ chunks'[i].endPage - chunks'[i].startPage + 1 <= 4
                       /\ Without(chunks', i) = chunks
                       /\ selectedChunk' = chunks'[i]
                /\ nextChunkId' = nextChunkId + 1
                /\ OrderedByStart(chunks')
                /\ qaCache' = qaCache]_vars

\* C33 witness: the form was accepted for a chunk of 4 pages that starts
\* before the chunk already listed, whose pairs are cached; the new chunk
\* is first in the list, has the higher id and is selected.
C33_Witness ==
    /\ formError = ""
    /\ adds = 2
    /\ Len(chunks) = 2
    /\ chunks[1].id = 2 /\ chunks[2].id = 1
    /\ chunks[1].startPage < chunks[2].startPage
    /\ chunks[1].endPage - chunks[1].startPage + 1 = 4
    /\ selectedChunk = chunks[1]
    /\ nextChunkId = 3
    /\ DOMAIN qaCache = {1}

\* A submission was rejected and the list of one chunk is as before.
FormRejected ==
    /\ formError \in AddErrors
    /\ adds = 2
    /\ Len(chunks) = 1
    /\ nextChunkId = 2

\* ----------------------------------------- specification: termination
\* The completions of the external calls and timers the handlers await.
OutlineDone == AutoSplitOutlineRejects \/ AutoSplitOutlineArray
WalkDone == AutoSplitNoBookmarks \/ AutoSplitSucceeds
ExtractionDone == BatchNoContent \/ BatchExtracted
RequestDone ==
    \/ GenAttemptSucceeds("[{question,answer}]")
    \/ GenRequestRejects(TransientError)
GenerateDone == BatchGenerateResolves \/ BatchGenerateRejects

MaxLiveItems == 1

\* The environment of this specification: one document of WalkPageCount
\* pages with an outline is loaded; the user adds a chunk, starts splits and
\* one batch run; outlines are walked as flat lists; a request is answered
\* by a body of pairs or rejected with a transient error.
NextLive ==
    \/ uploads = 0 /\ HandleFileChangePdf
    \/ ReaderOnLoad
    \/ GetDocumentResolves(WalkPageCount)
    \/ LoadOutlineResolves("items")
    \/ TextCheckDone
    \/ adds < MaxRunAdds /\ ldPc = "idle" /\ HandleAddChunk(1, 1)
    \/ ldPc = "idle" /\ baLog = <<>> /\ HandleGenerateAllQa
    \/ ldPc = "idle" /\ AutoSplitStart
    \/ /\ visited < MaxLiveItems
       /\ \E item \in ReloadItems(asDoc) : ProcessOutlineItem(item, FALSE)
    \/ OutlineDone
    \/ WalkDone
    \/ ExtractionDone
    \/ RequestDone
    \/ GenSleepEnds
    \/ GenerateDone
    \/ BatchPacingEnds

\* WalkDone can be taken, and weak fairness of it: WF_vars(WalkDone) with
\* its enabling condition written out.
WalkCanEnd == asPc = "walk" /\ ~entered /\ depth = 1
WalkDoneFair == <>[]WalkCanEnd => []<><<WalkDone>>_vars

\* Every awaited call and timer completes; a walk runs out of items.
SpecLive ==
    /\ InitBatch
    /\ [][NextLive]_vars
    /\ WF_vars(OutlineDone)
    /\ WalkDoneFair
    /\ WF_vars(ExtractionDone)
    /\ WF_vars(RequestDone)
    /\ WF_vars(GenSleepEnds)
    /\ WF_vars(GenerateDone)
    /\ WF_vars(BatchPacingEnds)

\* C31: every batch run that was started ends, with isGeneratingAll false;
\* every generateQuestionsAndAnswers call that sent a request returns or
\* throws; every autoSplitPdf call that was started ends, with
\* isAutoSplitting false.
C31_HandlersTerminate ==
    /\ (baPc # "idle") ~> (baPc = "idle" /\ ~isGeneratingAll)
    /\ (genPc \in {"request", "sleep"}) ~> (genPc \in {"returned", "thrown"})
    /\ (asPc # "idle") ~> (asPc = "idle" /\ ~isAutoSplitting)

\* C31 witness: a run over two chunks is at the third request for its
\* second chunk while a split is walking the outline.
C31_Witness ==
    /\ baPc = "call"
    /\ Len(baChunks) = 2
    /\ baCompleted = 1
    /\ isGeneratingAll
    /\ genPc = "request"
    /\ requests = MAX_RETRIES
    /\ asPc = "walk"
    /\ isAutoSplitting

====
